---- MODULE Spec2Model ----
(***************************************************************************)
(* Model of the finding-classification and response-rewrite engine of      *)
(* ARC-MCP (handlers/rewrite_utils.py, handlers/template_manager.py,       *)
(* handlers/response_rewriter.py).                                         *)
(*                                                                         *)
(* Text is modelled as a sequence of non-empty chunks: the empty string is *)
(* the empty sequence, concatenation is \o, and Python truthiness of a     *)
(* string is "is not the empty sequence".  An Optional[str] is a record    *)
(* with a 'present' flag, so that None and "" stay distinct.               *)
(***************************************************************************)
EXTENDS Integers, Sequences, FiniteSets, TLC

\* ------------------------------------------------------------------ bounds
MaxFindings == 3

\* ------------------------------------------------------- optional values
None == [present |-> FALSE, text |-> <<>>]
Some(s) == [present |-> TRUE, text |-> s]
\* Python truthiness of an Optional[str]: None and "" are both falsy
Truthy(o) == o.present /\ o.text # <<>>

\* ------------------------------------------------------------ FindingType
\* enum members in declaration order, each a (key, priority) pair
FindingTypeMembers ==
  << [key |-> "VALID", priority |-> 0],
     [key |-> "INVALID", priority |-> 10],
     [key |-> "SATISFIABLE", priority |-> 8],
     [key |-> "NO_DATA", priority |-> 7],
     [key |-> "TRANSLATION_AMBIGUOUS", priority |-> 6],
     [key |-> "TOO_COMPLEX", priority |-> 5] >>

FindingType == {FindingTypeMembers[i] : i \in DOMAIN FindingTypeMembers}
VALID == FindingTypeMembers[1]
INVALID == FindingTypeMembers[2]
SATISFIABLE == FindingTypeMembers[3]
NO_DATA == FindingTypeMembers[4]
TRANSLATION_AMBIGUOUS == FindingTypeMembers[5]
TOO_COMPLEX == FindingTypeMembers[6]
\* the None returned by from_string
NoFindingType == [key |-> "None", priority |-> -1]

SetMin(S) == CHOOSE x \in S : \A y \in S : x <= y

\* variant: a value that names no member falls back to the first member
from_string_fallback(value) ==
  LET hits == {i \in DOMAIN FindingTypeMembers : FindingTypeMembers[i].key = value}
  IN IF hits = {} THEN FindingTypeMembers[1] ELSE FindingTypeMembers[SetMin(hits)]

\* first member, in declaration order, whose key equals the value
from_string(value) ==
  LET hits == {i \in DOMAIN FindingTypeMembers : FindingTypeMembers[i].key = value}
  IN IF hits = {} THEN NoFindingType ELSE FindingTypeMembers[SetMin(hits)]

\* finding.get(field, default)
Get(finding, field, default) ==
  IF field \in DOMAIN finding THEN finding[field] ELSE default

\* --------------------------------------------------------- FindingProcessor
\* The dict built by categorize_findings: 'keys' is the insertion order of
\* the dict, 'groups' maps each key to its list of findings.
EmptyDict == [keys |-> <<>>, groups |-> <<>>]

\* variant: a further finding of a known type replaces the group
RECURSIVE CategorizeFrom_overwrite(_, _, _)
CategorizeFrom_overwrite(findings, i, categorized) ==
  IF i > Len(findings) THEN categorized
  ELSE LET finding == findings[i]
           result == Get(finding, "result", "UNKNOWN")
           finding_type == from_string(result)
           pos == {k \in DOMAIN categorized.keys : categorized.keys[k] = finding_type}
       IN IF finding_type = NoFindingType
          THEN CategorizeFrom_overwrite(findings, i + 1, categorized)
          ELSE IF pos = {}
          THEN CategorizeFrom_overwrite(findings, i + 1,
                 [keys |-> Append(categorized.keys, finding_type),
                  groups |-> Append(categorized.groups, <<finding>>)])
          ELSE LET k == SetMin(pos)
               IN CategorizeFrom_overwrite(findings, i + 1,
                    [categorized EXCEPT !.groups[k] = <<finding>>])

RECURSIVE CategorizeFrom(_, _, _)
CategorizeFrom(findings, i, categorized) ==
  IF i > Len(findings) THEN categorized
  ELSE LET finding == findings[i]
           result == Get(finding, "result", "UNKNOWN")
           finding_type == from_string(result)
           pos == {k \in DOMAIN categorized.keys : categorized.keys[k] = finding_type}
       IN IF finding_type = NoFindingType
          THEN CategorizeFrom(findings, i + 1, categorized)
          ELSE IF pos = {}
          THEN CategorizeFrom(findings, i + 1,
                 [keys |-> Append(categorized.keys, finding_type),
                  groups |-> Append(categorized.groups, <<finding>>)])
          ELSE LET k == SetMin(pos)
               IN CategorizeFrom(findings, i + 1,
                    [categorized EXCEPT !.groups[k] = Append(@, finding)])

categorize_findings(findings) == CategorizeFrom(findings, 1, EmptyDict)

\* findings_by_type[finding_type] / findings_by_type.get(finding_type, [])
GroupOf(findings_by_type, finding_type) ==
  LET pos == {k \in DOMAIN findings_by_type.keys : findings_by_type.keys[k] = finding_type}
  IN IF pos = {} THEN <<>> ELSE findings_by_type.groups[SetMin(pos)]

\* variant: sorted without reverse=True, lowest priority first
RECURSIVE SortedByPriorityAsc(_)
SortedByPriorityAsc(keys) ==
  IF keys = <<>> THEN <<>>
  ELSE LET best == SetMin({i \in DOMAIN keys :
                     \A j \in DOMAIN keys : keys[j].priority >= keys[i].priority})
           rest == [j \in 1..(Len(keys) - 1) |-> IF j < best THEN keys[j] ELSE keys[j + 1]]
       IN <<keys[best]>> \o SortedByPriorityAsc(rest)

\* sorted(keys, key=priority, reverse=True): stable, so among equal
\* priorities the earlier key stays first
RECURSIVE SortedByPriorityDesc(_)
SortedByPriorityDesc(keys) ==
  IF keys = <<>> THEN <<>>
  ELSE LET best == SetMin({i \in DOMAIN keys :
                     \A j \in DOMAIN keys : keys[j].priority <= keys[i].priority})
           rest == [j \in 1..(Len(keys) - 1) |-> IF j < best THEN keys[j] ELSE keys[j + 1]]
       IN <<keys[best]>> \o SortedByPriorityDesc(rest)

\* variant: the keys in dict insertion order, the sort left out
get_priority_types_unsorted(findings_by_type) == findings_by_type.keys

get_priority_types(findings_by_type) ==
  IF findings_by_type.keys = <<>> THEN <<>>
  ELSE SortedByPriorityDesc(findings_by_type.keys)

\* variant: an entry already collected is not collected again
RECURSIVE ExtendAll_unique(_, _)
ExtendAll_unique(findings, field) ==
  IF findings = <<>> THEN <<>>
  ELSE LET rest == ExtendAll_unique(SubSeq(findings, 1, Len(findings) - 1), field)
           own == Get(findings[Len(findings)], field, <<>>)
           Fresh(x) == \A i \in DOMAIN rest : rest[i] # x
           first == [i \in DOMAIN own |-> \A j \in 1..(i - 1) : own[j] # own[i]]
           kept == {i \in DOMAIN own : first[i] /\ Fresh(own[i])}
           Pick(q) == [n \in 1..Cardinality(kept) |->
                         own[CHOOSE i \in kept : Cardinality({m \in kept : m <= i}) = n]]
       IN rest \o Pick(own)

\* list.extend over the findings of a group, for one field
RECURSIVE ExtendAll(_, _)
ExtendAll(findings, field) ==
  IF findings = <<>> THEN <<>>
  ELSE Get(Head(findings), field, <<>>) \o ExtendAll(Tail(findings), field)

\* sep.join(prefix + item for item in items)
RECURSIVE JoinWith(_, _, _)
JoinWith(sep, prefix, items) ==
  IF items = <<>> THEN <<>>
  ELSE IF Len(items) = 1 THEN prefix \o <<Head(items)>>
  ELSE prefix \o <<Head(items)>> \o sep \o JoinWith(sep, prefix, Tail(items))

\* template_data: a function from slot name to text
process_finding_data(policy_definition, finding_type, findings) ==
  IF findings = <<>> THEN <<>>
  ELSE LET all_violations == ExtendAll(findings, "violations")
           all_suggestions == ExtendAll(findings, "suggestions")
           all_rules == ExtendAll(findings, "appliedRules")
           base == [violations |->
                      IF all_violations # <<>>
                      THEN JoinWith(<<"\n">>, <<"- ">>, all_violations)
                      ELSE <<"No specific violations found">>,
                    suggestions |->
                      IF all_suggestions # <<>>
                      THEN JoinWith(<<"\n">>, <<"- ">>, all_suggestions)
                      ELSE <<"Ensure compliance with policy requirements">>,
                    applied_rules |->
                      IF all_rules # <<>>
                      THEN JoinWith(<<", ">>, <<>>, all_rules)
                      ELSE <<"Policy rules">>]
       IN IF Truthy(policy_definition)
          THEN [k \in DOMAIN base \cup {"policy"} |->
                  IF k = "policy" THEN policy_definition.text ELSE base[k]]
          ELSE base

\* ---------------------------------------------------------- TemplateManager
\* A template is a sequence of tokens: literal text or a named {slot}.
Lit(t) == [kind |-> "lit", val |-> t]
Slot(n) == [kind |-> "slot", val |-> n]

TemplateGood ==
  << Lit("Domain: "), Slot("domain"), Lit(" Question: "), Slot("question"),
     Lit(" Answer: "), Slot("original_answer"), Lit(" Violations: "),
     Slot("violations"), Lit(" Suggestions: "), Slot("suggestions"),
     Lit(" Rules: "), Slot("applied_rules") >>
TemplateWithPolicy == TemplateGood \o << Lit(" Policy: "), Slot("policy") >>
TemplateBadSlot == << Lit("Fix: "), Slot("violations"), Lit(" "), Slot("severity") >>

\* What the template directory holds for one "<key>.txt" at the time it is
\* looked up: the file may be missing, unreadable, empty, or hold a template.
TemplateFiles ==
  { [exists |-> FALSE, readable |-> FALSE, content |-> <<>>],
    [exists |-> TRUE, readable |-> FALSE, content |-> <<>>],
    [exists |-> TRUE, readable |-> TRUE, content |-> <<>>],
    [exists |-> TRUE, readable |-> TRUE, content |-> TemplateGood],
    [exists |-> TRUE, readable |-> TRUE, content |-> TemplateWithPolicy],
    [exists |-> TRUE, readable |-> TRUE, content |-> TemplateBadSlot] }

\* variant: VALID and TOO_COMPLEX are looked up like any other type
get_template_all(finding_type, file) ==
  IF ~file.exists THEN None
  ELSE IF ~file.readable THEN None
  ELSE Some(file.content)

\* Optional[str] of template tokens
get_template(finding_type, file) ==
  IF finding_type \in {VALID, TOO_COMPLEX} THEN None
  ELSE IF ~file.exists THEN None
  ELSE IF ~file.readable THEN None
  ELSE Some(file.content)

RECURSIVE Substitute(_, _)
Substitute(template, kwargs) ==
  IF template = <<>> THEN <<>>
  ELSE LET tok == Head(template)
       IN (IF tok.kind = "lit" THEN <<tok.val>> ELSE kwargs[tok.val])
          \o Substitute(Tail(template), kwargs)

\* variant: a slot that is not a keyword is left out of the text
format_template_lenient(template, kwargs) ==
  LET Known(tok) == tok.kind = "lit" \/ tok.val \in DOMAIN kwargs
  IN [raised |-> FALSE, text |-> Substitute(SelectSeq(template, Known), kwargs)]

\* template.format(**kwargs); a slot that is not a keyword raises ValueError
format_template(template, kwargs) ==
  IF \E i \in DOMAIN template :
       template[i].kind = "slot" /\ template[i].val \notin DOMAIN kwargs
  THEN [raised |-> TRUE, text |-> <<>>]
  ELSE [raised |-> FALSE, text |-> Substitute(template, kwargs)]

\* dict.update
Update(a, b) ==
  [k \in DOMAIN a \cup DOMAIN b |-> IF k \in DOMAIN b THEN b[k] ELSE a[k]]

\* --------------------------------------------------------- ResponseRewriter
\* Result: [raised, prompt] where prompt is an Optional[str]
prepare_rewrite_prompt(dom, policy, query, response, finding_type, relevant_findings, file) ==
  LET template == get_template(finding_type, file)
  IN IF ~Truthy(template) THEN [raised |-> FALSE, prompt |-> None]
     ELSE LET template_vars == [domain |-> dom,
                                question |-> query,
                                original_answer |-> response]
              finding_data == process_finding_data(policy, finding_type,
                                                   relevant_findings)
              formatted == format_template(template.text,
                                           Update(template_vars, finding_data))
          IN IF formatted.raised THEN [raised |-> TRUE, prompt |-> None]
             ELSE [raised |-> FALSE, prompt |-> Some(formatted.text)]

Digits == <<"1", "2", "3", "4", "5", "6", "7", "8", "9">>

RECURSIVE Corrections(_, _)
Corrections(rewrites, i) ==
  IF i > Len(rewrites) THEN <<>>
  ELSE <<"Correction ", Digits[i], " (", rewrites[i].finding_type, "): ">>
       \o rewrites[i].rewritten_text \o <<"\n\n">>
       \o Corrections(rewrites, i + 1)

\* variant: the corrections are listed last one first
combine_prompt_reversed(user_query, llm_response, rewrites) ==
  <<"Your task is to combine multiple corrected answers. Original Question: ">>
  \o user_query \o <<" Original Answer: ">> \o llm_response
  \o <<" The following are corrected versions addressing different issues: ">>
  \o Corrections([i \in DOMAIN rewrites |-> rewrites[Len(rewrites) + 1 - i]], 1)
  \o <<"Create a single unified response.">>

combine_prompt(user_query, llm_response, rewrites) ==
  <<"Your task is to combine multiple corrected answers. Original Question: ">>
  \o user_query \o <<" Original Answer: ">> \o llm_response
  \o <<" The following are corrected versions addressing different issues: ">>
  \o Corrections(rewrites, 1)
  \o <<"Create a single unified response.">>

TooComplexMessage ==
  <<"This question contains too much information to process accurately. ",
    "Please break it down into simpler, more focused questions.">>

\* the keys of a list of finding types
RECURSIVE Keys(_)
Keys(types) == IF types = <<>> THEN <<>> ELSE <<Head(types).key>> \o Keys(Tail(types))

\* -------------------------------------------------------------- inputs
\* Findings as the validator returns them; 'result' may be a recognised
\* outcome, an outcome outside the enum, or missing altogether.  The pool
\* holds three categories that can have a template, the two that cannot,
\* and the two kinds of unclassifiable finding.
FindingPool ==
  { [result |-> "INVALID", violations |-> <<"v1", "v2">>, suggestions |-> <<"s1">>,
     appliedRules |-> <<"r1", "r1">>],
    [result |-> "NO_DATA", violations |-> <<>>, suggestions |-> <<>>,
     appliedRules |-> <<>>],
    [result |-> "TRANSLATION_AMBIGUOUS", suggestions |-> <<"s2">>],
    [result |-> "TOO_COMPLEX", explanation |-> <<"too complex">>],
    [result |-> "VALID", explanation |-> <<"all good">>],
    [result |-> "IMPOSSIBLE", violations |-> <<"v3">>],
    [explanation |-> <<"no result field">>] }

RECURSIVE SeqsUpTo(_, _)
SeqsUpTo(S, n) ==
  IF n = 0 THEN {<<>>}
  ELSE LET shorter == SeqsUpTo(S, n - 1)
       IN shorter \cup {Append(q, x) : q \in {r \in shorter : Len(r) = n - 1}, x \in S}

\* ar_findings: None, a dict without a 'findings' key, or a dict with one
ArFindingsInputs ==
  { [isNone |-> TRUE, hasFindings |-> FALSE, findings |-> <<>>],
    [isNone |-> FALSE, hasFindings |-> FALSE, findings |-> <<>>] }
  \cup { [isNone |-> FALSE, hasFindings |-> TRUE, findings |-> fs] :
           fs \in SeqsUpTo(FindingPool, MaxFindings) }

PolicyInputs == { None, Some(<<"policy text">>) }

\* What one converse call does: it raises, or it returns a response that
\* lacks the text field, or it returns a response carrying a text.
ConverseOutcomes ==
  { [raises |-> TRUE, hasText |-> FALSE, text |-> <<>>],
    [raises |-> FALSE, hasText |-> FALSE, text |-> <<>>],
    [raises |-> FALSE, hasText |-> TRUE, text |-> <<>>],
    [raises |-> FALSE, hasText |-> TRUE, text |-> <<"generated text">>] }

\* variant: only a raising call counts as failed; a response without the
\* text field is read as an empty text
ConverseFailed_raisesOnly(outcome) == outcome.raises

\* response['output']['message']['content'][0]['text'] inside a try block:
\* TRUE when the call or the extraction raises
ConverseFailed(outcome) == outcome.raises \/ ~outcome.hasText

\* ---------------------------------------------------------------- state
VARIABLES
  pc,                \* "call", "loop", "returned", "raised"
  user_query,
  llm_response,
  ar_findings,
  policy_definition,
  domain,
  result,            \* the result dict of rewrite_response
  findings_by_type,
  priority_types,
  idx,               \* position of the for loop in priority_types
  rewrites,
  attempted,         \* finding types handed to prepare_rewrite_prompt, in order
  calls,             \* converse calls made, in order
  combine_sent,      \* the prompt handed to converse by _combine_rewrites, if any
  finding_data,      \* the dict returned by process_finding_data
  handler_pc,        \* position of summarize_results; "direct" without it
  apply_guardrail_response,
  formatted_findings,
  summary,           \* the dict returned by summarize_results
  list_guardrails_response,  \* what the list_guardrails call does
  item_no,           \* position of the for loop of list_guardrails_handler
  guardrails,        \* the list list_guardrails_handler builds
  listing,           \* the dict returned by list_guardrails_handler
  bedrock_calls      \* list_guardrails and get_guardrail calls made, in order

\* the state of summarize_results around the call of rewrite_response
handlerVars == << handler_pc, apply_guardrail_response, formatted_findings, summary >>

\* the state of list_guardrails_handler
discoveryVars == << list_guardrails_response, item_no, guardrails, listing, bedrock_calls >>

vars == << pc, user_query, llm_response, ar_findings, policy_definition, domain,
           result, findings_by_type, priority_types, idx, rewrites, attempted, calls,
           combine_sent, finding_data, handlerVars, discoveryVars >>

\* what the steps of rewrite_response leave alone
inputVars == << user_query, llm_response, ar_findings, policy_definition, domain,
                finding_data, handlerVars, discoveryVars >>

\* no apply_guardrail response received (yet)
NoResponse ==
  [received |-> FALSE, hasAssessments |-> FALSE, assessments |-> <<>>,
   hasUsage |-> FALSE, usage |-> <<>>]

\* no list_guardrails call made
NoListing == [raises |-> FALSE, hasGuardrails |-> FALSE, guardrails |-> <<>>]

\* list_guardrails_handler not entered
DiscoveryIdle ==
  /\ list_guardrails_response = NoListing
  /\ item_no = 1
  /\ guardrails = <<>>
  /\ listing = <<>>
  /\ bedrock_calls = <<>>

InitialResult(original) ==
  [original_response |-> original,
   rewritten |-> FALSE,
   finding_types |-> <<>>,
   findings_count |-> 0,
   rewritten_response |-> None,
   message |-> None]

Init ==
  /\ pc = "call"
  /\ user_query = <<"Question?">>
  /\ llm_response = <<"Answer">>
  /\ ar_findings \in ArFindingsInputs
  /\ policy_definition \in PolicyInputs
  /\ domain = <<"General">>
  /\ result = InitialResult(llm_response)
  /\ findings_by_type = EmptyDict
  /\ priority_types = <<>>
  /\ idx = 1
  /\ rewrites = <<>>
  /\ attempted = <<>>
  /\ calls = <<>>
  /\ combine_sent = None
  /\ finding_data = <<>>
  /\ handler_pc = "direct"
  /\ apply_guardrail_response = NoResponse
  /\ formatted_findings = <<>>
  /\ summary = <<>>
  /\ DiscoveryIdle

\* variant: only None and a missing key are tested, not the empty list
NothingToProcess_keyOnly(ar) == ar.isNone \/ ~ar.hasFindings

\* "not ar_findings or 'findings' not in ar_findings or not ar_findings['findings']"
NothingToProcess(ar) == ar.isNone \/ ~ar.hasFindings \/ ar.findings = <<>>

\* ------------------------------------------------- rewrite_response: entry
\* lines 101-104
NoFindings ==
  /\ pc = "call"
  /\ NothingToProcess(ar_findings)
  /\ result' = [result EXCEPT !.message = Some(<<"No findings to process">>)]
  /\ pc' = "returned"
  /\ UNCHANGED << inputVars, findings_by_type, priority_types, idx, rewrites,
                  attempted, calls, combine_sent >>

\* lines 106-114
NoActionableFindings ==
  /\ pc = "call"
  /\ ~NothingToProcess(ar_findings)
  /\ LET fbt == categorize_findings(ar_findings.findings)
         pts == get_priority_types(fbt)
     IN /\ pts = <<>>
        /\ findings_by_type' = fbt
        /\ priority_types' = pts
  /\ result' = [result EXCEPT !.message = Some(<<"No actionable findings">>)]
  /\ pc' = "returned"
  /\ UNCHANGED << inputVars, idx, rewrites, attempted, calls, combine_sent >>

\* variant: the canned message is stored but the result is not flagged rewritten
TooComplexOnly_unflagged ==
  /\ pc = "call"
  /\ ~NothingToProcess(ar_findings)
  /\ LET fbt == categorize_findings(ar_findings.findings)
         pts == get_priority_types(fbt)
     IN /\ pts # <<>>
        /\ pts = <<TOO_COMPLEX>>
        /\ findings_by_type' = fbt
        /\ priority_types' = pts
        /\ result' = [result EXCEPT
                        !.finding_types = <<TOO_COMPLEX.key>>,
                        !.findings_count = Len(GroupOf(fbt, TOO_COMPLEX)),
                        !.rewritten_response = Some(TooComplexMessage),
                        !.message = Some(<<"Replaced with generic TOO_COMPLEX message">>)]
  /\ pc' = "returned"
  /\ UNCHANGED << inputVars, idx, rewrites, attempted, calls, combine_sent >>

\* variant: the canned message is returned whenever TOO_COMPLEX is present
\* and no templated category is
TooComplexOnly_leading ==
  /\ pc = "call"
  /\ ~NothingToProcess(ar_findings)
  /\ LET fbt == categorize_findings(ar_findings.findings)
         pts == get_priority_types(fbt)
     IN /\ pts # <<>>
        /\ pts[1] = TOO_COMPLEX
        /\ findings_by_type' = fbt
        /\ priority_types' = pts
        /\ result' = [result EXCEPT
                        !.finding_types = <<TOO_COMPLEX.key>>,
                        !.findings_count = Len(GroupOf(fbt, TOO_COMPLEX)),
                        !.rewritten = TRUE,
                        !.rewritten_response = Some(TooComplexMessage),
                        !.message = Some(<<"Replaced with generic TOO_COMPLEX message">>)]
  /\ pc' = "returned"
  /\ UNCHANGED << inputVars, idx, rewrites, attempted, calls, combine_sent >>

\* lines 116-126
TooComplexOnly ==
  /\ pc = "call"
  /\ ~NothingToProcess(ar_findings)
  /\ LET fbt == categorize_findings(ar_findings.findings)
         pts == get_priority_types(fbt)
     IN /\ pts # <<>>
        /\ pts = <<TOO_COMPLEX>>
        /\ findings_by_type' = fbt
        /\ priority_types' = pts
        /\ result' = [result EXCEPT
                        !.finding_types = <<TOO_COMPLEX.key>>,
                        !.findings_count = Len(GroupOf(fbt, TOO_COMPLEX)),
                        !.rewritten = TRUE,
                        !.rewritten_response = Some(TooComplexMessage),
                        !.message = Some(<<"Replaced with generic TOO_COMPLEX message">>)]
  /\ pc' = "returned"
  /\ UNCHANGED << inputVars, idx, rewrites, attempted, calls, combine_sent >>

\* variant: findings_count is the length of the whole input list
ValidOnly_countsAll ==
  /\ pc = "call"
  /\ ~NothingToProcess(ar_findings)
  /\ LET fbt == categorize_findings(ar_findings.findings)
         pts == get_priority_types(fbt)
     IN /\ pts # <<>>
        /\ pts # <<TOO_COMPLEX>>
        /\ pts = <<VALID>>
        /\ findings_by_type' = fbt
        /\ priority_types' = pts
        /\ result' = [result EXCEPT
                        !.finding_types = <<pts[1].key>>,
                        !.message = Some(<<"No rewrite needed. Finding type: ", pts[1].key>>),
                        !.findings_count = Len(ar_findings.findings)]
  /\ pc' = "returned"
  /\ UNCHANGED << inputVars, idx, rewrites, attempted, calls, combine_sent >>

\* lines 128-133
ValidOnly ==
  /\ pc = "call"
  /\ ~NothingToProcess(ar_findings)
  /\ LET fbt == categorize_findings(ar_findings.findings)
         pts == get_priority_types(fbt)
     IN /\ pts # <<>>
        /\ pts # <<TOO_COMPLEX>>
        /\ pts = <<VALID>>
        /\ findings_by_type' = fbt
        /\ priority_types' = pts
        /\ result' = [result EXCEPT
                        !.finding_types = <<pts[1].key>>,
                        !.message = Some(<<"No rewrite needed. Finding type: ", pts[1].key>>),
                        !.findings_count = Len(GroupOf(fbt, pts[1]))]
  /\ pc' = "returned"
  /\ UNCHANGED << inputVars, idx, rewrites, attempted, calls, combine_sent >>

\* lines 135-137: no early return applies, the for loop starts
StartRewriting ==
  /\ pc = "call"
  /\ ~NothingToProcess(ar_findings)
  /\ LET fbt == categorize_findings(ar_findings.findings)
         pts == get_priority_types(fbt)
     IN /\ pts # <<>>
        /\ pts # <<TOO_COMPLEX>>
        /\ pts # <<VALID>>
        /\ findings_by_type' = fbt
        /\ priority_types' = pts
  /\ rewrites' = <<>>
  /\ idx' = 1
  /\ pc' = "loop"
  /\ UNCHANGED << inputVars, result, attempted, calls, combine_sent >>

\* ------------------------------------- rewrite_response: one loop iteration
\* The prompt prepared for the category the loop is at, given what the
\* template directory holds for it.
PromptFor(file) ==
  prepare_rewrite_prompt(domain, policy_definition, user_query, llm_response,
                         priority_types[idx],
                         GroupOf(findings_by_type, priority_types[idx]), file)

InLoop == pc = "loop" /\ idx <= Len(priority_types)

\* One entry of the call log: which converse call it was and what it did.
CallRecord(kind, key, outcome) ==
  [kind |-> kind, finding_type |-> key, outcome |-> outcome]

\* lines 139-143: prepare_rewrite_prompt returns None (or an empty prompt)
CategorySkipped ==
  /\ InLoop
  /\ \E file \in TemplateFiles :
       LET prep == PromptFor(file)
       IN ~prep.raised /\ ~Truthy(prep.prompt)
  /\ attempted' = Append(attempted, priority_types[idx].key)
  /\ idx' = idx + 1
  /\ UNCHANGED << pc, inputVars, result, findings_by_type, priority_types,
                  rewrites, calls, combine_sent >>

\* lines 139-141: format_template raises, outside any try block
CompositionError ==
  /\ InLoop
  /\ \E file \in TemplateFiles : PromptFor(file).raised
  /\ attempted' = Append(attempted, priority_types[idx].key)
  /\ pc' = "raised"
  /\ UNCHANGED << inputVars, result, findings_by_type, priority_types, idx,
                  rewrites, calls, combine_sent >>

\* variant: findings_count goes up by one per rewritten category
CategoryRewritten_countsOne ==
  /\ InLoop
  /\ \E file \in TemplateFiles, outcome \in ConverseOutcomes :
       LET prep == PromptFor(file)
           finding_type == priority_types[idx]
       IN /\ ~prep.raised
          /\ Truthy(prep.prompt)
          /\ ~ConverseFailed(outcome)
          /\ calls' = Append(calls, CallRecord("rewrite", finding_type.key, outcome))
          /\ rewrites' = Append(rewrites, [finding_type |-> finding_type.key,
                                           rewritten_text |-> outcome.text])
          /\ result' = [result EXCEPT
                          !.finding_types = Append(@, finding_type.key),
                          !.findings_count = @ + 1]
  /\ attempted' = Append(attempted, priority_types[idx].key)
  /\ idx' = idx + 1
  /\ UNCHANGED << pc, inputVars, findings_by_type, priority_types, combine_sent >>

\* lines 143-158: the converse call returns a text
CategoryRewritten ==
  /\ InLoop
  /\ \E file \in TemplateFiles, outcome \in ConverseOutcomes :
       LET prep == PromptFor(file)
           finding_type == priority_types[idx]
           relevant_findings == GroupOf(findings_by_type, finding_type)
       IN /\ ~prep.raised
          /\ Truthy(prep.prompt)
          /\ ~ConverseFailed(outcome)
          /\ calls' = Append(calls, CallRecord("rewrite", finding_type.key, outcome))
          /\ rewrites' = Append(rewrites, [finding_type |-> finding_type.key,
                                           rewritten_text |-> outcome.text])
          /\ result' = [result EXCEPT
                          !.finding_types = Append(@, finding_type.key),
                          !.findings_count = @ + Len(relevant_findings)]
  /\ attempted' = Append(attempted, priority_types[idx].key)
  /\ idx' = idx + 1
  /\ UNCHANGED << pc, inputVars, findings_by_type, priority_types, combine_sent >>

\* variant: the except clause leaves the loop (break) instead of continuing
CategoryFailed_break ==
  /\ InLoop
  /\ \E file \in TemplateFiles, outcome \in ConverseOutcomes :
       LET prep == PromptFor(file)
           finding_type == priority_types[idx]
       IN /\ ~prep.raised
          /\ Truthy(prep.prompt)
          /\ ConverseFailed(outcome)
          /\ calls' = Append(calls, CallRecord("rewrite", finding_type.key, outcome))
  /\ attempted' = Append(attempted, priority_types[idx].key)
  /\ idx' = Len(priority_types) + 1
  /\ UNCHANGED << pc, inputVars, result, findings_by_type, priority_types, rewrites, combine_sent >>

\* variant: the category and its findings are recorded before the call
CategoryFailed_recorded ==
  /\ InLoop
  /\ \E file \in TemplateFiles, outcome \in ConverseOutcomes :
       LET prep == PromptFor(file)
           finding_type == priority_types[idx]
           relevant_findings == GroupOf(findings_by_type, finding_type)
       IN /\ ~prep.raised
          /\ Truthy(prep.prompt)
          /\ ConverseFailed(outcome)
          /\ calls' = Append(calls, CallRecord("rewrite", finding_type.key, outcome))
          /\ result' = [result EXCEPT
                          !.finding_types = Append(@, finding_type.key),
                          !.findings_count = @ + Len(relevant_findings)]
  /\ attempted' = Append(attempted, priority_types[idx].key)
  /\ idx' = idx + 1
  /\ UNCHANGED << pc, inputVars, findings_by_type, priority_types, rewrites, combine_sent >>

\* lines 143-162: the converse call or the extraction of its text raises
CategoryFailed ==
  /\ InLoop
  /\ \E file \in TemplateFiles, outcome \in ConverseOutcomes :
       LET prep == PromptFor(file)
           finding_type == priority_types[idx]
       IN /\ ~prep.raised
          /\ Truthy(prep.prompt)
          /\ ConverseFailed(outcome)
          /\ calls' = Append(calls, CallRecord("rewrite", finding_type.key, outcome))
  /\ attempted' = Append(attempted, priority_types[idx].key)
  /\ idx' = idx + 1
  /\ UNCHANGED << pc, inputVars, result, findings_by_type, priority_types, rewrites, combine_sent >>

\* --------------------------------------- rewrite_response: after the loop
LoopDone == pc = "loop" /\ idx > Len(priority_types)

\* variant: with nothing generated the original answer is passed off as a rewrite
NoRewritesGenerated_original ==
  /\ LoopDone
  /\ rewrites = <<>>
  /\ result' = [result EXCEPT
                  !.rewritten_response = Some(llm_response),
                  !.rewritten = TRUE,
                  !.message = Some(<<"No rewrites generated">>)]
  /\ pc' = "returned"
  /\ UNCHANGED << inputVars, findings_by_type, priority_types, idx, rewrites,
                  attempted, calls, combine_sent >>

\* lines 183-186
NoRewritesGenerated ==
  /\ LoopDone
  /\ rewrites = <<>>
  /\ result' = [result EXCEPT !.message = Some(<<"No rewrites generated">>)]
  /\ pc' = "returned"
  /\ UNCHANGED << inputVars, findings_by_type, priority_types, idx, rewrites,
                  attempted, calls, combine_sent >>

\* variant: the single rewrite is sent through the combine call as well
SingleRewrite_combined ==
  /\ LoopDone
  /\ rewrites # <<>>
  /\ Len(rewrites) = 1
  /\ \E outcome \in ConverseOutcomes :
       /\ calls' = Append(calls, CallRecord("combine", "", outcome))
       /\ combine_sent' = Some(combine_prompt(user_query, llm_response, rewrites))
       /\ result' = [result EXCEPT
                       !.rewritten_response =
                          IF ConverseFailed(outcome) THEN Some(rewrites[1].rewritten_text)
                          ELSE Some(outcome.text),
                       !.rewritten = TRUE,
                       !.message = Some(<<"Successfully rewrote response for ",
                                          rewrites[1].finding_type>>)]
  /\ pc' = "returned"
  /\ UNCHANGED << inputVars, findings_by_type, priority_types, idx, rewrites, attempted >>

\* lines 166-170
SingleRewrite ==
  /\ LoopDone
  /\ rewrites # <<>>
  /\ Len(rewrites) = 1
  /\ result' = [result EXCEPT
                  !.rewritten_response = Some(rewrites[1].rewritten_text),
                  !.rewritten = TRUE,
                  !.message = Some(<<"Successfully rewrote response for ",
                                     rewrites[1].finding_type>>)]
  /\ pc' = "returned"
  /\ UNCHANGED << inputVars, findings_by_type, priority_types, idx, rewrites,
                  attempted, calls, combine_sent >>

\* _combine_rewrites, lines 232-242: the text or None
CombinedResponse(outcome) ==
  IF ConverseFailed(outcome) THEN None ELSE Some(outcome.text)

\* variant: the first per-category rewrite is returned instead of the merge
CombineSucceeded_first ==
  /\ LoopDone
  /\ Len(rewrites) > 1
  /\ \E outcome \in ConverseOutcomes :
       LET combined_response == CombinedResponse(outcome)
       IN /\ Truthy(combined_response)
          /\ calls' = Append(calls, CallRecord("combine", "", outcome))
          /\ combine_sent' = Some(combine_prompt(user_query, llm_response, rewrites))
          /\ result' = [result EXCEPT
                          !.rewritten_response = Some(rewrites[1].rewritten_text),
                          !.rewritten = TRUE,
                          !.message = Some(<<"Successfully rewrote response for: ">>
                                           \o JoinWith(<<", ">>, <<>>, result.finding_types))]
  /\ pc' = "returned"
  /\ UNCHANGED << inputVars, findings_by_type, priority_types, idx, rewrites, attempted >>

\* lines 171-180
CombineSucceeded ==
  /\ LoopDone
  /\ Len(rewrites) > 1
  /\ \E outcome \in ConverseOutcomes :
       LET combined_response == CombinedResponse(outcome)
       IN /\ Truthy(combined_response)
          /\ calls' = Append(calls, CallRecord("combine", "", outcome))
          /\ combine_sent' = Some(combine_prompt(user_query, llm_response, rewrites))
          /\ result' = [result EXCEPT
                          !.rewritten_response = combined_response,
                          !.rewritten = TRUE,
                          !.message = Some(<<"Successfully rewrote response for: ">>
                                           \o JoinWith(<<", ">>, <<>>, result.finding_types))]
  /\ pc' = "returned"
  /\ UNCHANGED << inputVars, findings_by_type, priority_types, idx, rewrites, attempted >>

\* variant: on a failed merge the highest-priority rewrite is returned piecemeal
CombineFailed_piecemeal ==
  /\ LoopDone
  /\ Len(rewrites) > 1
  /\ \E outcome \in ConverseOutcomes :
       LET combined_response == CombinedResponse(outcome)
       IN /\ ~Truthy(combined_response)
          /\ calls' = Append(calls, CallRecord("combine", "", outcome))
          /\ combine_sent' = Some(combine_prompt(user_query, llm_response, rewrites))
          /\ result' = [result EXCEPT
                          !.rewritten_response = Some(rewrites[1].rewritten_text),
                          !.message = Some(<<"Error combining rewrites">>)]
  /\ pc' = "returned"
  /\ UNCHANGED << inputVars, findings_by_type, priority_types, idx, rewrites, attempted >>

\* variant: a failed merge also resets finding_types and findings_count
CombineFailed_cleared ==
  /\ LoopDone
  /\ Len(rewrites) > 1
  /\ \E outcome \in ConverseOutcomes :
       LET combined_response == CombinedResponse(outcome)
       IN /\ ~Truthy(combined_response)
          /\ calls' = Append(calls, CallRecord("combine", "", outcome))
          /\ combine_sent' = Some(combine_prompt(user_query, llm_response, rewrites))
          /\ result' = [result EXCEPT !.message = Some(<<"Error combining rewrites">>),
                                      !.finding_types = <<>>,
                                      !.findings_count = 0]
  /\ pc' = "returned"
  /\ UNCHANGED << inputVars, findings_by_type, priority_types, idx, rewrites, attempted >>

\* lines 171-182
CombineFailed ==
  /\ LoopDone
  /\ Len(rewrites) > 1
  /\ \E outcome \in ConverseOutcomes :
       LET combined_response == CombinedResponse(outcome)
       IN /\ ~Truthy(combined_response)
          /\ calls' = Append(calls, CallRecord("combine", "", outcome))
          /\ combine_sent' = Some(combine_prompt(user_query, llm_response, rewrites))
          /\ result' = [result EXCEPT !.message = Some(<<"Error combining rewrites">>)]
  /\ pc' = "returned"
  /\ UNCHANGED << inputVars, findings_by_type, priority_types, idx, rewrites, attempted >>

Next ==
  \/ NoFindings
  \/ NoActionableFindings
  \/ TooComplexOnly
  \/ ValidOnly
  \/ StartRewriting
  \/ CategorySkipped
  \/ CompositionError
  \/ CategoryRewritten
  \/ CategoryFailed
  \/ NoRewritesGenerated
  \/ SingleRewrite
  \/ CombineSucceeded
  \/ CombineFailed

Spec == Init /\ [][Next]_vars

\* ======================================================= classification alone
\* categorize_findings and get_priority_types called on their own, as the
\* unit tests call them, over every outcome of the enum.
ClassifyPool ==
  { [result |-> FindingTypeMembers[i].key] : i \in DOMAIN FindingTypeMembers }
  \cup { [result |-> "INVALID", explanation |-> <<"Violation 2">>],
         [result |-> "IMPOSSIBLE"],
         [result |-> "invalid"],
         [explanation |-> <<"no result field">>] }

\* dicts handed straight to get_priority_types: every ordering of every
\* set of finding types, one finding per type
DirectDicts ==
  { [keys |-> ks, groups |-> [i \in DOMAIN ks |-> << [result |-> ks[i].key] >>]] :
      ks \in { q \in SeqsUpTo(FindingType, Len(FindingTypeMembers)) :
                 \A i, j \in DOMAIN q : i # j => q[i] # q[j] } }

\* the variables classification does not touch
classifyIdle == << user_query, llm_response, policy_definition, domain, result, idx,
                   rewrites, attempted, calls, combine_sent, finding_data, handlerVars,
                   discoveryVars >>

InitClassify ==
  /\ \/ /\ pc = "classify"
        /\ ar_findings \in { [isNone |-> FALSE, hasFindings |-> TRUE, findings |-> fs] :
                               fs \in SeqsUpTo(ClassifyPool, MaxFindings) }
        /\ findings_by_type = EmptyDict
     \/ /\ pc = "direct"
        /\ ar_findings = [isNone |-> TRUE, hasFindings |-> FALSE, findings |-> <<>>]
        /\ findings_by_type \in DirectDicts
  /\ priority_types = <<>>
  /\ user_query = <<"Question?">>
  /\ llm_response = <<"Answer">>
  /\ policy_definition = None
  /\ domain = <<"General">>
  /\ result = InitialResult(llm_response)
  /\ idx = 1
  /\ rewrites = <<>>
  /\ attempted = <<>>
  /\ calls = <<>>
  /\ combine_sent = None
  /\ finding_data = <<>>
  /\ handler_pc = "direct"
  /\ apply_guardrail_response = NoResponse
  /\ formatted_findings = <<>>
  /\ summary = <<>>
  /\ DiscoveryIdle

\* rewrite_utils.py lines 36-49
Categorize ==
  /\ pc = "classify"
  /\ findings_by_type' = categorize_findings(ar_findings.findings)
  /\ pc' = "categorized"
  /\ UNCHANGED << ar_findings, priority_types, classifyIdle >>

\* rewrite_utils.py lines 51-63, on the dict categorize_findings built
Prioritize ==
  /\ pc = "categorized"
  /\ priority_types' = get_priority_types(findings_by_type)
  /\ pc' = "classified"
  /\ UNCHANGED << ar_findings, findings_by_type, classifyIdle >>

\* rewrite_utils.py lines 51-63, on a dict handed in by the caller
PrioritizeDirect ==
  /\ pc = "direct"
  /\ priority_types' = get_priority_types(findings_by_type)
  /\ pc' = "prioritized"
  /\ UNCHANGED << ar_findings, findings_by_type, classifyIdle >>

\* variant: the dict of the first run is kept and filled further
Reclassify_accumulating ==
  /\ pc = "classified"
  /\ LET fbt == CategorizeFrom(ar_findings.findings, 1, findings_by_type)
     IN /\ findings_by_type' = fbt
        /\ priority_types' = get_priority_types(fbt)
  /\ pc' = "reclassified"
  /\ UNCHANGED << ar_findings, classifyIdle >>

\* both functions called a second time on the same processor and the same
\* list: each call starts from a fresh dict (line 38) and only reads the list
Reclassify ==
  /\ pc = "classified"
  /\ LET fbt == categorize_findings(ar_findings.findings)
     IN /\ findings_by_type' = fbt
        /\ priority_types' = get_priority_types(fbt)
  /\ pc' = "reclassified"
  /\ UNCHANGED << ar_findings, classifyIdle >>

NextClassify ==
  \/ Categorize
  \/ Prioritize
  \/ PrioritizeDirect
  \/ Reclassify

SpecClassify == InitClassify /\ [][NextClassify]_vars

\* ========================================================= aggregation alone
\* process_finding_data called on its own, as the unit test calls it, on a
\* group of findings of one category.  Lists may be missing, empty, and may
\* repeat an entry inside one finding or across findings; an entry is any
\* string the validator sent, the empty string included.
AggregationPool ==
  { [result |-> "INVALID", violations |-> <<"v1", "v2">>, suggestions |-> <<"s1">>,
     appliedRules |-> <<"r1", "r1">>],
    [result |-> "INVALID", violations |-> <<"v1">>, appliedRules |-> <<"r2">>],
    [result |-> "INVALID", violations |-> <<>>, suggestions |-> <<"s2", "s1">>,
     appliedRules |-> <<>>],
    [result |-> "INVALID", violations |-> <<"v3">>, suggestions |-> <<"s3">>,
     appliedRules |-> <<"r1">>],
    [result |-> "INVALID", appliedRules |-> <<"">>],
    [result |-> "INVALID"] }

InitAggregate ==
  /\ pc = "aggregate"
  /\ ar_findings \in { [isNone |-> FALSE, hasFindings |-> TRUE, findings |-> fs] :
                         fs \in SeqsUpTo(AggregationPool, MaxFindings) }
  /\ policy_definition \in PolicyInputs
  /\ findings_by_type = EmptyDict
  /\ priority_types = <<>>
  /\ user_query = <<"Question?">>
  /\ llm_response = <<"Answer">>
  /\ domain = <<"General">>
  /\ result = InitialResult(llm_response)
  /\ idx = 1
  /\ rewrites = <<>>
  /\ attempted = <<>>
  /\ calls = <<>>
  /\ combine_sent = None
  /\ finding_data = <<>>
  /\ handler_pc = "direct"
  /\ apply_guardrail_response = NoResponse
  /\ formatted_findings = <<>>
  /\ summary = <<>>
  /\ DiscoveryIdle

\* rewrite_utils.py lines 65-106; the finding type is accepted and not used
ProcessFindingData ==
  /\ pc = "aggregate"
  /\ \E finding_type \in FindingType :
       finding_data' = process_finding_data(policy_definition, finding_type,
                                            ar_findings.findings)
  /\ pc' = "aggregated"
  /\ UNCHANGED << user_query, llm_response, ar_findings, policy_definition, domain,
                  result, findings_by_type, priority_types, idx, rewrites, attempted,
                  calls, combine_sent, handlerVars, discoveryVars >>

NextAggregate == ProcessFindingData

SpecAggregate == InitAggregate /\ [][NextAggregate]_vars

\* ========================================================= summarize_results
\* The handler: one apply_guardrail call, extraction of the findings,
\* construction of the rewriter, rewrite_response (the actions of Next), and
\* the result dict; every exception inside the try block ends in the error
\* dict of lines 122-131.
MaxAssessments == 2

guardrail_id == <<"guardrail-1">>
guardrail_version == <<"1">>

\* lines 42-43
DefaultDomain(d) == IF d = None THEN <<"General">> ELSE d.text

DomainInputs == { None, Some(<<"Healthcare">>) }

\* ar_findings = None (line 64)
AbsentFindings == [isNone |-> TRUE, hasFindings |-> FALSE, findings |-> <<>>]

\* a policy assessment: the dict under 'automatedReasoningPolicy'
PolicyWith(fs) == [isNone |-> FALSE, hasFindings |-> TRUE, findings |-> fs]

\* One assessment of the response: without the automatedReasoningPolicy
\* key, with a policy that has no 'findings' key, or with a policy and its
\* findings.
AssessmentPool ==
  { [hasPolicy |-> FALSE, policy |-> AbsentFindings],
    [hasPolicy |-> TRUE,
     policy |-> [isNone |-> FALSE, hasFindings |-> FALSE, findings |-> <<>>]] }
  \cup
  { [hasPolicy |-> TRUE, policy |-> PolicyWith(fs)] : fs \in
      { << [result |-> "INVALID", violations |-> <<"v1", "v2">>, suggestions |-> <<"s1">>,
            appliedRules |-> <<"r1", "r1">>] >>,
        << [result |-> "VALID", explanation |-> <<"all good">>],
           [result |-> "NO_DATA", violations |-> <<>>, suggestions |-> <<>>,
            appliedRules |-> <<>>],
           [result |-> "INVALID", violations |-> <<"v1", "v2">>, suggestions |-> <<"s1">>,
            appliedRules |-> <<"r1", "r1">>] >>,
        << [result |-> "TOO_COMPLEX", explanation |-> <<"too complex">>] >>,
        << [result |-> "VALID", explanation |-> <<"all good">>] >>,
        << [result |-> "IMPOSSIBLE", violations |-> <<"v3">>],
           [explanation |-> <<"no result field">>] >> } }

\* the dict apply_guardrail returns: 'assessments' and 'usage' may be missing
GuardrailResponses ==
  { [received |-> TRUE, hasAssessments |-> FALSE, assessments |-> <<>>,
     hasUsage |-> u, usage |-> IF u THEN [automatedReasoningPolicies |-> 1] ELSE <<>>] :
      u \in BOOLEAN }
  \cup
  { [received |-> TRUE, hasAssessments |-> TRUE, assessments |-> a,
     hasUsage |-> u, usage |-> IF u THEN [automatedReasoningPolicies |-> 1] ELSE <<>>] :
      a \in SeqsUpTo(AssessmentPool, MaxAssessments), u \in BOOLEAN }

\* what apply_guardrail can raise: a service error (botocore ClientError,
\* carrying the service's error code) or a failure to reach the service
ValidatorErrors ==
  { [class |-> "ClientError", hasCode |-> TRUE, code |-> "ResourceNotFoundException",
     message |-> <<"Guardrail not found">>],
    [class |-> "EndpointConnectionError", hasCode |-> FALSE, code |-> "",
     message |-> <<"Could not connect to the endpoint URL">>] }

\* str(e)
Str(e) ==
  IF e.hasCode
  THEN <<"An error occurred (", e.code, ") when calling the ApplyGuardrail operation: ">>
         \o e.message
  ELSE e.message

\* variant: the loop has no break, the last assessment with the policy key wins
FirstPolicy_last(response) ==
  LET hits == {i \in DOMAIN response.assessments : response.assessments[i].hasPolicy}
  IN IF response.hasAssessments /\ response.assessments # <<>> /\ hits # {}
     THEN response.assessments[CHOOSE i \in hits : \A j \in hits : j <= i].policy
     ELSE AbsentFindings

\* lines 64-69: the first assessment that has the policy key
FirstPolicy(response) ==
  LET hits == {i \in DOMAIN response.assessments : response.assessments[i].hasPolicy}
  IN IF response.hasAssessments /\ response.assessments # <<>> /\ hits # {}
     THEN response.assessments[SetMin(hits)].policy
     ELSE AbsentFindings

\* rewrite_utils.py lines 124-131
FormatFinding(finding) ==
  [result |-> Get(finding, "result", "UNKNOWN"),
   explanation |-> Get(finding, "explanation", <<>>),
   variables |-> Get(finding, "variables", <<>>),
   appliedRules |-> Get(finding, "appliedRules", <<>>),
   violations |-> Get(finding, "violations", <<>>),
   suggestions |-> Get(finding, "suggestions", <<>>)]

RECURSIVE ExtractFrom(_)
ExtractFrom(assessments) ==
  IF assessments = <<>> THEN <<>>
  ELSE LET assessment == Head(assessments)
           findings == IF assessment.hasPolicy THEN assessment.policy.findings ELSE <<>>
       IN [i \in DOMAIN findings |-> FormatFinding(findings[i])]
            \o ExtractFrom(Tail(assessments))

\* rewrite_utils.py lines 109-135
extract_reasoning_findings(guardrail_response) ==
  IF ~guardrail_response.hasAssessments THEN <<>>
  ELSE ExtractFrom(guardrail_response.assessments)

\* lines 124-131
ErrorDict(error_type, error_message) ==
  [error |-> TRUE,
   error_type |-> error_type,
   error_message |-> error_message,
   query |-> user_query,
   original_response |-> llm_response,
   guardrail_id |-> guardrail_id]

\* lines 93-112
ResultDict ==
  LET base == [query |-> user_query,
               original_response |-> llm_response,
               rewritten_response |-> result.rewritten_response,
               rewritten |-> result.rewritten,
               findings |-> formatted_findings,
               finding_types |-> result.finding_types,
               findings_count |-> result.findings_count,
               domain |-> domain,
               message |-> result.message,
               guardrail_id |-> guardrail_id,
               guardrail_version |-> guardrail_version]
      usage == [automatedReasoningPolicies |->
                  Get(apply_guardrail_response.usage, "automatedReasoningPolicies", 0),
                automatedReasoningPolicyUnits |->
                  Get(apply_guardrail_response.usage, "automatedReasoningPolicyUnits", 0)]
  IN IF apply_guardrail_response.hasUsage
     THEN Update(base, [usage |-> usage])
     ELSE base

\* the variables of rewrite_response, untouched while the handler runs
rewriterVars == << result, findings_by_type, priority_types, idx, rewrites, attempted,
                   combine_sent, finding_data >>
argVars == << user_query, llm_response, policy_definition, domain >>

InitSummarize ==
  /\ handler_pc = "entry"
  /\ pc = "idle"
  /\ user_query = <<"Question?">>
  /\ llm_response = <<"Answer">>
  /\ policy_definition \in PolicyInputs
  /\ domain \in {DefaultDomain(d) : d \in DomainInputs}
  /\ ar_findings = AbsentFindings
  /\ result = InitialResult(llm_response)
  /\ findings_by_type = EmptyDict
  /\ priority_types = <<>>
  /\ idx = 1
  /\ rewrites = <<>>
  /\ attempted = <<>>
  /\ calls = <<>>
  /\ combine_sent = None
  /\ finding_data = <<>>
  /\ apply_guardrail_response = NoResponse
  /\ formatted_findings = <<>>
  /\ summary = <<>>
  /\ DiscoveryIdle

\* variant: a failed apply_guardrail call is made once more before giving up
ApplyGuardrailFails_retry ==
  /\ handler_pc = "entry"
  /\ \E e \in ValidatorErrors :
       /\ calls' = Append(calls, CallRecord("apply_guardrail", "",
                                            [raises |-> TRUE, exception |-> e]))
       /\ IF calls = <<>>
          THEN handler_pc' = "entry" /\ summary' = summary
          ELSE handler_pc' = "done" /\ summary' = ErrorDict(e.class, Str(e))
  /\ UNCHANGED << pc, argVars, discoveryVars, ar_findings, rewriterVars, apply_guardrail_response,
                  formatted_findings >>

\* lines 56-61 raise: the except block of lines 122-131 returns the error dict
ApplyGuardrailFails ==
  /\ handler_pc = "entry"
  /\ \E e \in ValidatorErrors :
       /\ calls' = Append(calls, CallRecord("apply_guardrail", "",
                                            [raises |-> TRUE, exception |-> e]))
       /\ summary' = ErrorDict(e.class, Str(e))
  /\ handler_pc' = "done"
  /\ UNCHANGED << pc, argVars, discoveryVars, ar_findings, rewriterVars, apply_guardrail_response,
                  formatted_findings >>

\* lines 56-75: the call returns, the first policy assessment is picked and
\* the findings of all policy assessments are formatted
ApplyGuardrailReturns ==
  /\ handler_pc = "entry"
  /\ \E response \in GuardrailResponses :
       /\ apply_guardrail_response' = response
       /\ ar_findings' = FirstPolicy(response)
       /\ formatted_findings' = extract_reasoning_findings(response)
  /\ calls' = Append(calls, CallRecord("apply_guardrail", "", [raises |-> FALSE]))
  /\ handler_pc' = "construct"
  /\ UNCHANGED << pc, argVars, discoveryVars, rewriterVars, summary >>

\* lines 78-81 with template_manager.py lines 12-17: the template directory
\* does not exist, TemplateManager raises ValueError
RewriterConstructionFails ==
  /\ handler_pc = "construct"
  /\ summary' = ErrorDict("ValueError",
                          <<"Template directory not found: ", "response_rewriting_prompts">>)
  /\ handler_pc' = "done"
  /\ UNCHANGED << pc, argVars, discoveryVars, ar_findings, rewriterVars, calls,
                  apply_guardrail_response, formatted_findings >>

\* lines 78-90: the rewriter is built and rewrite_response is entered
RewriterConstructed ==
  /\ handler_pc = "construct"
  /\ handler_pc' = "rewriting"
  /\ pc' = "call"
  /\ UNCHANGED << argVars, discoveryVars, ar_findings, rewriterVars, calls, apply_guardrail_response,
                  formatted_findings, summary >>

\* variant: the guardrail is applied again before the result is built
BuildResult_revalidates ==
  /\ handler_pc = "rewriting"
  /\ pc = "returned"
  /\ summary' = ResultDict
  /\ calls' = Append(calls, CallRecord("apply_guardrail", "", [raises |-> FALSE]))
  /\ handler_pc' = "done"
  /\ UNCHANGED << pc, argVars, discoveryVars, ar_findings, rewriterVars, apply_guardrail_response,
                  formatted_findings >>

\* lines 93-120: rewrite_response returned
BuildResult ==
  /\ handler_pc = "rewriting"
  /\ pc = "returned"
  /\ summary' = ResultDict
  /\ handler_pc' = "done"
  /\ UNCHANGED << pc, argVars, discoveryVars, ar_findings, rewriterVars, calls,
                  apply_guardrail_response, formatted_findings >>

\* variant: the exception of rewrite_response leaves the handler
RewriteRaised_propagates ==
  /\ handler_pc = "rewriting"
  /\ pc = "raised"
  /\ handler_pc' = "raised"
  /\ UNCHANGED << pc, argVars, discoveryVars, ar_findings, rewriterVars, calls,
                  apply_guardrail_response, formatted_findings, summary >>

\* lines 122-131: rewrite_response raised (a template names a variable that
\* is not supplied), the except block returns the error dict
RewriteRaised ==
  /\ handler_pc = "rewriting"
  /\ pc = "raised"
  /\ summary' = ErrorDict("ValueError", <<"Missing required template variable">>)
  /\ handler_pc' = "done"
  /\ UNCHANGED << pc, argVars, discoveryVars, ar_findings, rewriterVars, calls,
                  apply_guardrail_response, formatted_findings >>

NextSummarize ==
  \/ ApplyGuardrailFails
  \/ ApplyGuardrailReturns
  \/ RewriterConstructionFails
  \/ RewriterConstructed
  \/ Next
  \/ BuildResult
  \/ RewriteRaised

SpecSummarize == InitSummarize /\ [][NextSummarize]_vars

\* ==================================================== list_guardrails_handler
\* discovery.py: one list_guardrails call, then one get_guardrail call per
\* listed guardrail; guardrails with at least one attached policy are kept.
MaxGuardrails == 3

\* What get_guardrail answers for a guardrail: it raises ClientError, or it
\* returns a detail whose automatedReasoningPolicyConfig is missing, has no
\* 'policies' key, or has a list of policy ARNs.
NoConfig == [raises |-> FALSE, hasConfig |-> FALSE, hasPolicies |-> FALSE, policies |-> <<>>]
ConfigWith(ps) == [raises |-> FALSE, hasConfig |-> TRUE, hasPolicies |-> TRUE, policies |-> ps]

\* the guardrails the listing can hold, each with the detail the service
\* has for it; 'name' may be missing from the listed item
GuardrailPool ==
  { [id |-> "g1", hasName |-> TRUE, name |-> "Guardrail 1",
     detail |-> ConfigWith(<<"policy/a">>)],
    [id |-> "g2", hasName |-> FALSE, name |-> "",
     detail |-> ConfigWith(<<"policy/a", "policy/b">>)],
    [id |-> "g3", hasName |-> TRUE, name |-> "Guardrail 3", detail |-> NoConfig],
    [id |-> "g4", hasName |-> TRUE, name |-> "Guardrail 4", detail |-> ConfigWith(<<>>)],
    [id |-> "g5", hasName |-> TRUE, name |-> "Guardrail 5",
     detail |-> [raises |-> FALSE, hasConfig |-> TRUE, hasPolicies |-> FALSE,
                 policies |-> <<>>]],
    [id |-> "g6", hasName |-> TRUE, name |-> "Guardrail 6",
     detail |-> [raises |-> TRUE, hasConfig |-> FALSE, hasPolicies |-> FALSE,
                 policies |-> <<>>]] }

\* what list_guardrails does: it raises ClientError, or returns a response
\* without the 'guardrails' key, or a response with the listed guardrails
ListingOutcomes ==
  { [raises |-> TRUE, hasGuardrails |-> FALSE, guardrails |-> <<>>],
    [raises |-> FALSE, hasGuardrails |-> FALSE, guardrails |-> <<>>] }
  \cup { [raises |-> FALSE, hasGuardrails |-> TRUE, guardrails |-> gs] :
           gs \in SeqsUpTo(GuardrailPool, MaxGuardrails) }

\* str(e) of the ClientError of the listing call
ListingErrorText ==
  <<"An error occurred (", "AccessDeniedException",
    ") when calling the ListGuardrails operation: ", "Access denied">>

\* lines 37-38: detail.get('automatedReasoningPolicyConfig') and its policies
has_arc(detail) == detail.hasConfig /\ detail.hasPolicies /\ detail.policies # <<>>

\* lines 41-52; arn, description, status, latest_version and the two dates
\* are copied from the listed item in the same way as name
GuardrailEntry(item) ==
  [id |-> item.id,
   name |-> IF item.hasName THEN item.name ELSE "",
   has_arc_policies |-> TRUE,
   arc_policy_count |-> Len(item.detail.policies)]

BedrockCall(op, id) == [op |-> op, id |-> id]

\* the variables list_guardrails_handler does not touch
discoveryIdle == << user_query, llm_response, ar_findings, policy_definition, domain,
                    result, findings_by_type, priority_types, idx, rewrites, attempted,
                    calls, combine_sent, finding_data, handlerVars >>

InitDiscovery ==
  /\ pc = "list"
  /\ list_guardrails_response \in ListingOutcomes
  /\ item_no = 1
  /\ guardrails = <<>>
  /\ listing = <<>>
  /\ bedrock_calls = <<>>
  /\ user_query = <<"Question?">>
  /\ llm_response = <<"Answer">>
  /\ ar_findings = [isNone |-> TRUE, hasFindings |-> FALSE, findings |-> <<>>]
  /\ policy_definition = None
  /\ domain = <<"General">>
  /\ result = InitialResult(llm_response)
  /\ findings_by_type = EmptyDict
  /\ priority_types = <<>>
  /\ idx = 1
  /\ rewrites = <<>>
  /\ attempted = <<>>
  /\ calls = <<>>
  /\ combine_sent = None
  /\ finding_data = <<>>
  /\ handler_pc = "direct"
  /\ apply_guardrail_response = NoResponse
  /\ formatted_findings = <<>>
  /\ summary = <<>>

\* lines 24-26 raise ClientError: the outer except block, lines 64-70
ListGuardrailsFails ==
  /\ pc = "list"
  /\ list_guardrails_response.raises
  /\ bedrock_calls' = Append(bedrock_calls, BedrockCall("list_guardrails", ""))
  /\ listing' = [error |-> TRUE, error_message |-> ListingErrorText, guardrails |-> <<>>]
  /\ pc' = "listed"
  /\ UNCHANGED << list_guardrails_response, item_no, guardrails, discoveryIdle >>

\* lines 24-29: the call returns; the loop starts over response.get('guardrails', [])
ListGuardrailsReturns ==
  /\ pc = "list"
  /\ ~list_guardrails_response.raises
  /\ bedrock_calls' = Append(bedrock_calls, BedrockCall("list_guardrails", ""))
  /\ guardrails' = <<>>
  /\ item_no' = 1
  /\ pc' = "details"
  /\ UNCHANGED << list_guardrails_response, listing, discoveryIdle >>

InDetails == pc = "details" /\ item_no <= Len(list_guardrails_response.guardrails)

\* variant: a guardrail without attached policies is listed with count 0
GuardrailWithoutArc_listed ==
  /\ InDetails
  /\ LET item == list_guardrails_response.guardrails[item_no]
     IN /\ ~item.detail.raises
        /\ ~has_arc(item.detail)
        /\ bedrock_calls' = Append(bedrock_calls, BedrockCall("get_guardrail", item.id))
        /\ guardrails' = Append(guardrails, GuardrailEntry(item))
  /\ item_no' = item_no + 1
  /\ UNCHANGED << pc, list_guardrails_response, listing, discoveryIdle >>

\* lines 32-40: the detail has no attached policy, the guardrail is left out
GuardrailWithoutArc ==
  /\ InDetails
  /\ LET item == list_guardrails_response.guardrails[item_no]
     IN /\ ~item.detail.raises
        /\ ~has_arc(item.detail)
        /\ bedrock_calls' = Append(bedrock_calls, BedrockCall("get_guardrail", item.id))
  /\ item_no' = item_no + 1
  /\ UNCHANGED << pc, list_guardrails_response, guardrails, listing, discoveryIdle >>

\* lines 32-52: the detail has attached policies, the guardrail is appended
GuardrailWithArc ==
  /\ InDetails
  /\ LET item == list_guardrails_response.guardrails[item_no]
     IN /\ ~item.detail.raises
        /\ has_arc(item.detail)
        /\ bedrock_calls' = Append(bedrock_calls, BedrockCall("get_guardrail", item.id))
        /\ guardrails' = Append(guardrails, GuardrailEntry(item))
  /\ item_no' = item_no + 1
  /\ UNCHANGED << pc, list_guardrails_response, listing, discoveryIdle >>

\* variant: a failed detail call ends the handler with the error dict
GetGuardrailFails_aborts ==
  /\ InDetails
  /\ LET item == list_guardrails_response.guardrails[item_no]
     IN /\ item.detail.raises
        /\ bedrock_calls' = Append(bedrock_calls, BedrockCall("get_guardrail", item.id))
  /\ listing' = [error |-> TRUE, error_message |-> ListingErrorText, guardrails |-> <<>>]
  /\ pc' = "listed"
  /\ UNCHANGED << item_no, list_guardrails_response, guardrails, discoveryIdle >>

\* lines 32-35 raise ClientError: the inner except block, lines 53-56
GetGuardrailFails ==
  /\ InDetails
  /\ LET item == list_guardrails_response.guardrails[item_no]
     IN /\ item.detail.raises
        /\ bedrock_calls' = Append(bedrock_calls, BedrockCall("get_guardrail", item.id))
  /\ item_no' = item_no + 1
  /\ UNCHANGED << pc, list_guardrails_response, guardrails, listing, discoveryIdle >>

\* lines 58-62
ListingBuilt ==
  /\ pc = "details"
  /\ item_no > Len(list_guardrails_response.guardrails)
  /\ listing' = [guardrails |-> guardrails, count |-> Len(guardrails)]
  /\ pc' = "listed"
  /\ UNCHANGED << list_guardrails_response, item_no, guardrails, bedrock_calls,
                  discoveryIdle >>

NextDiscovery ==
  \/ ListGuardrailsFails
  \/ ListGuardrailsReturns
  \/ GuardrailWithoutArc
  \/ GuardrailWithArc
  \/ GetGuardrailFails
  \/ ListingBuilt

SpecDiscovery == InitDiscovery /\ [][NextDiscovery]_vars

\* =================================================================== claims
\* ----------------------------------------------------- helpers for claims
Returned == pc = "returned"
\* the call went through the per-category loop (the loop visits >= 1 category)
ThroughLoop == Returned /\ attempted # <<>>

IsRewriteCall(c) == c.kind = "rewrite"
IsCombineCall(c) == c.kind = "combine"
RewriteCalls == SelectSeq(calls, IsRewriteCall)
CombineCalls == SelectSeq(calls, IsCombineCall)
IsSuccessfulCall(c) == c.kind = "rewrite" /\ ~c.outcome.raises /\ c.outcome.hasText
SuccessfulCalls == SelectSeq(calls, IsSuccessfulCall)
FailedCalls == {i \in DOMAIN calls : calls[i].kind = "rewrite" /\ ~IsSuccessfulCall(calls[i])}

PriorityOfKey(k) == (CHOOSE m \in FindingType : m.key = k).priority
StrictlyDescending(keys) ==
  \A i, j \in DOMAIN keys : i < j => PriorityOfKey(keys[i]) > PriorityOfKey(keys[j])

\* number of input findings whose outcome string is exactly k
CountWithResult(k) ==
  Cardinality({i \in DOMAIN ar_findings.findings :
                 "result" \in DOMAIN ar_findings.findings[i]
                 /\ ar_findings.findings[i].result = k})

RECURSIVE SumOfCounts(_)
SumOfCounts(keys) ==
  IF keys = <<>> THEN 0 ELSE CountWithResult(Head(keys)) + SumOfCounts(Tail(keys))

RecognizedKeys == {m.key : m \in FindingType}
\* the input has findings, at least one has outcome k, and every finding
\* with a recognised outcome has outcome k
OnlyRecognized(k) ==
  /\ ~ar_findings.isNone /\ ar_findings.hasFindings
  /\ CountWithResult(k) > 0
  /\ \A r \in RecognizedKeys \ {k} : CountWithResult(r) = 0

\* the merge call returned a usable (non-empty) text
UsableText(outcome) == ~outcome.raises /\ outcome.hasText /\ outcome.text # <<>>

\* ----------------------------------------------------------------------- C1
\* C1 (as claimed): in every returned result, rewritten = true implies that
\* rewritten_response is present and non-empty, and rewritten = false implies
\* that rewritten_response is None.
C1_RewrittenIffTextPresent ==
  Returned =>
    /\ (result.rewritten => (result.rewritten_response.present
                             /\ result.rewritten_response.text # <<>>))
    /\ (~result.rewritten => result.rewritten_response = None)

\* ----------------------------------------------------------------------- C2
\* C2: the per-category converse calls are issued in strictly descending
\* priority of the categories present (and so are the categories handed to
\* prompt preparation), and any two categories that both generated
\* successfully appear in finding_types in that same priority order.
C2_PriorityOrder ==
  /\ StrictlyDescending(attempted)
  /\ StrictlyDescending([i \in DOMAIN RewriteCalls |-> RewriteCalls[i].finding_type])
  /\ StrictlyDescending(result.finding_types)
  /\ (pc \in {"loop", "returned"} /\ attempted # <<>>) =>
       \A i, j \in DOMAIN SuccessfulCalls : i < j =>
         \E p, q \in DOMAIN result.finding_types :
           /\ p < q
           /\ result.finding_types[p] = SuccessfulCalls[i].finding_type
           /\ result.finding_types[q] = SuccessfulCalls[j].finding_type

\* merge path reached with the findings given in an order other than priority
C2_Witness ==
  /\ Returned
  /\ result.rewritten
  /\ Len(result.finding_types) >= 2
  /\ CombineCalls # <<>>
  /\ findings_by_type.keys # priority_types

\* ----------------------------------------------------------------------- C3
\* C3: a category whose prompt is None or whose converse call fails is the
\* only one skipped: while the loop runs every category before the current
\* position has been attempted, on return every category of the priority
\* sequence has been attempted, and the outcomes recorded are exactly those
\* of the successful calls, in order.
C3_FailureSkipsOnlyThatCategory ==
  (pc \in {"loop", "returned"} /\ (pc = "loop" \/ attempted # <<>>)) =>
    /\ attempted = Keys(SubSeq(priority_types, 1, idx - 1))
    /\ (Returned => attempted = Keys(priority_types))
    /\ rewrites = [i \in DOMAIN SuccessfulCalls |->
                     [finding_type |-> SuccessfulCalls[i].finding_type,
                      rewritten_text |-> SuccessfulCalls[i].outcome.text]]
    /\ result.finding_types = [i \in DOMAIN rewrites |-> rewrites[i].finding_type]

\* a successful call, then a failed call, then a successful call: the two
\* successes around the failure are both kept
C3_Witness ==
  /\ Returned
  /\ Len(rewrites) = 2
  /\ \E i, j, k \in DOMAIN calls :
       /\ i < j /\ j < k
       /\ IsSuccessfulCall(calls[i])
       /\ j \in FailedCalls
       /\ IsSuccessfulCall(calls[k])

\* ----------------------------------------------------------------------- C4
\* C4: in a result produced through the per-category loop, finding_types is
\* exactly the list of categories whose converse call succeeded and
\* findings_count is the number of input findings of those categories.
C4_OnlySuccessfulCategoriesRecorded ==
  ThroughLoop =>
    /\ result.finding_types =
         [i \in DOMAIN SuccessfulCalls |-> SuccessfulCalls[i].finding_type]
    /\ result.findings_count = SumOfCounts(result.finding_types)

\* one category generated, one failed, one had no prompt
C4_Witness ==
  /\ ThroughLoop
  /\ Len(result.finding_types) = 1
  /\ FailedCalls # {}
  /\ Len(attempted) > Len(RewriteCalls)
  /\ result.findings_count < Len(ar_findings.findings)

\* ----------------------------------------------------------------------- C5
\* C5: when two or more categories produced a rewrite, exactly one combine
\* call is made and it is the last call of the invocation (no combine call
\* is made while the loop runs); if that call returns a usable text the
\* result is rewritten, rewritten_response is that text, and the message
\* names every category in finding_types.
C5_MergeOnceAfterAllCategories ==
  /\ (pc = "loop" => CombineCalls = <<>>)
  /\ (Returned /\ Len(rewrites) >= 2) =>
       /\ Len(CombineCalls) = 1
       /\ IsCombineCall(calls[Len(calls)])
       /\ LET outcome == calls[Len(calls)].outcome
          IN UsableText(outcome) =>
               /\ result.rewritten
               /\ result.rewritten_response = Some(outcome.text)
               /\ result.message.present
               /\ \A i \in DOMAIN rewrites :
                    \E m \in DOMAIN result.message.text :
                      result.message.text[m] = rewrites[i].finding_type

\* three categories merged, the first per-category text differing from the merge
C5_Witness ==
  /\ Returned
  /\ Len(rewrites) = 3
  /\ result.rewritten
  /\ UsableText(calls[Len(calls)].outcome)
  /\ rewrites[1].rewritten_text # result.rewritten_response.text

\* ----------------------------------------------------------------------- C6
\* C6: when exactly one category produced a rewrite, no combine call is
\* made, the result is rewritten, and rewritten_response is the text the
\* converse call returned for that category.
C6_SingleRewriteUsedDirectly ==
  (Returned /\ Len(rewrites) = 1) =>
    /\ CombineCalls = <<>>
    /\ combine_sent = None
    /\ result.rewritten
    /\ Len(SuccessfulCalls) = 1
    /\ result.rewritten_response = Some(SuccessfulCalls[1].outcome.text)

\* one rewrite out of several categories attempted
C6_Witness ==
  /\ Returned
  /\ Len(rewrites) = 1
  /\ Len(attempted) >= 3
  /\ FailedCalls # {}
  /\ result.rewritten_response.text # <<>>

\* ----------------------------------------------------------------------- C7
\* C7: when the combine call raises, lacks the text field or returns an
\* empty text, the result is not rewritten, its message is "Error combining
\* rewrites" and rewritten_response is None, so no per-category text is
\* returned.
C7_MergeFailureIsAllOrNothing ==
  (Returned /\ CombineCalls # <<>> /\ ~UsableText(CombineCalls[1].outcome)) =>
    /\ ~result.rewritten
    /\ result.message = Some(<<"Error combining rewrites">>)
    /\ result.rewritten_response = None

\* the merge returned an empty text although both categories had a text
C7_Witness ==
  /\ Returned
  /\ CombineCalls # <<>>
  /\ ~CombineCalls[1].outcome.raises
  /\ CombineCalls[1].outcome.hasText
  /\ CombineCalls[1].outcome.text = <<>>
  /\ \A i \in DOMAIN rewrites : rewrites[i].rewritten_text # <<>>
  /\ ~result.rewritten

\* ----------------------------------------------------------------------- C8
\* C8: when the loop ends with no rewrite, the result is not rewritten, its
\* message is "No rewrites generated", and no combine call is made.
C8_NoRewritesGenerated ==
  (ThroughLoop /\ rewrites = <<>>) =>
    /\ ~result.rewritten
    /\ result.rewritten_response = None
    /\ result.message = Some(<<"No rewrites generated">>)
    /\ CombineCalls = <<>>
    /\ combine_sent = None

\* every category either had no prompt or failed in the converse call
C8_Witness ==
  /\ ThroughLoop
  /\ rewrites = <<>>
  /\ Cardinality(FailedCalls) >= 2
  /\ Len(attempted) > Len(calls)

\* ----------------------------------------------------------------------- C9
\* C9: when the findings with a recognised outcome are all TOO_COMPLEX (and
\* there is at least one), no converse call is ever made, the loop is never
\* entered, and the result is rewritten with the canned message and
\* finding_types = [TOO_COMPLEX].
C9_TooComplexShortCircuit ==
  OnlyRecognized("TOO_COMPLEX") =>
    /\ calls = <<>>
    /\ pc \in {"call", "returned"}
    /\ Returned =>
         /\ result.rewritten
         /\ result.rewritten_response = Some(TooComplexMessage)
         /\ result.finding_types = <<"TOO_COMPLEX">>

\* two TOO_COMPLEX findings next to a finding outside the enum
C9_Witness ==
  /\ Returned
  /\ OnlyRecognized("TOO_COMPLEX")
  /\ CountWithResult("TOO_COMPLEX") = 2
  /\ Len(ar_findings.findings) = 3

\* ---------------------------------------------------------------------- C10
\* C10: when the findings with a recognised outcome are all VALID (and there
\* is at least one), no converse call is ever made, and the result is not
\* rewritten, has finding_types = [VALID], findings_count equal to the
\* number of VALID findings, and a message saying no rewrite is needed.
C10_ValidOnlyNoRewrite ==
  OnlyRecognized("VALID") =>
    /\ calls = <<>>
    /\ pc \in {"call", "returned"}
    /\ Returned =>
         /\ ~result.rewritten
         /\ result.rewritten_response = None
         /\ result.finding_types = <<"VALID">>
         /\ result.findings_count = CountWithResult("VALID")
         /\ result.message.present
         /\ result.message.text[1] = "No rewrite needed. Finding type: "

\* two VALID findings next to a finding without a result field
C10_Witness ==
  /\ Returned
  /\ OnlyRecognized("VALID")
  /\ CountWithResult("VALID") = 2
  /\ Len(ar_findings.findings) = 3

\* ---------------------------------------------------------------------- C11
\* C11: when ar_findings is None, has no 'findings' key or holds an empty
\* list, rewrite_response returns at once: nothing is classified, no
\* converse call is made, and the result is the initial result (not
\* rewritten, no text, no finding types, count 0) with the message
\* "No findings to process".
FindingSetEmptyOrAbsent ==
  ar_findings.isNone \/ ~ar_findings.hasFindings \/ Len(ar_findings.findings) = 0

C11_NoFindingsReturnsAtOnce ==
  FindingSetEmptyOrAbsent =>
    /\ calls = <<>>
    /\ attempted = <<>>
    /\ pc \in {"call", "returned"}
    /\ findings_by_type = EmptyDict
    /\ priority_types = <<>>
    /\ Returned =>
         result = [original_response |-> llm_response,
                   rewritten |-> FALSE,
                   finding_types |-> <<>>,
                   findings_count |-> 0,
                   rewritten_response |-> None,
                   message |-> Some(<<"No findings to process">>)]

\* returned for a dict whose 'findings' list is empty
C11_Witness ==
  /\ Returned
  /\ ~ar_findings.isNone
  /\ ar_findings.hasFindings
  /\ ar_findings.findings = <<>>
  /\ result.message = Some(<<"No findings to process">>)

\* ---------------------------------------------------------------------- C12
\* C12: when the finding list is not empty and no finding has a recognised
\* outcome (the outcome is outside the enum or missing), the priority
\* sequence is empty, no converse call is made, and the result is not
\* rewritten with the message "No actionable findings".
AllUnrecognized ==
  /\ ~FindingSetEmptyOrAbsent
  /\ \A r \in RecognizedKeys : CountWithResult(r) = 0

C12_NoActionableFindings ==
  AllUnrecognized =>
    /\ calls = <<>>
    /\ attempted = <<>>
    /\ pc \in {"call", "returned"}
    /\ Returned =>
         /\ findings_by_type = EmptyDict
         /\ priority_types = <<>>
         /\ ~result.rewritten
         /\ result.rewritten_response = None
         /\ result.finding_types = <<>>
         /\ result.findings_count = 0
         /\ result.message = Some(<<"No actionable findings">>)

\* three findings, some with an outcome outside the enum, some with none
C12_Witness ==
  /\ Returned
  /\ AllUnrecognized
  /\ Len(ar_findings.findings) = 3
  /\ \E i \in DOMAIN ar_findings.findings : "result" \in DOMAIN ar_findings.findings[i]
  /\ \E i \in DOMAIN ar_findings.findings : "result" \notin DOMAIN ar_findings.findings[i]

\* ---------------------------------------------------------------------- C16
\* C16: when VALID findings come with findings of at least one other
\* recognised category, every template lookup for VALID yields no prompt,
\* no converse call is made for VALID, VALID is never in finding_types, and
\* findings_count counts only the findings of the listed categories, so no
\* VALID finding is counted.
ValidMixed ==
  /\ ~FindingSetEmptyOrAbsent
  /\ CountWithResult("VALID") > 0
  /\ \E r \in RecognizedKeys \ {"VALID"} : CountWithResult(r) > 0

C16_ValidNeverRewrittenWhenMixed ==
  ValidMixed =>
    /\ \A i \in DOMAIN calls : calls[i].finding_type # "VALID"
    /\ \A i \in DOMAIN result.finding_types : result.finding_types[i] # "VALID"
    /\ \A i \in DOMAIN rewrites : rewrites[i].finding_type # "VALID"
    /\ \A file \in TemplateFiles :
         LET prep == prepare_rewrite_prompt(domain, policy_definition, user_query,
                       llm_response, VALID, GroupOf(findings_by_type, VALID), file)
         IN ~prep.raised /\ prep.prompt = None
    /\ Returned =>
         /\ result.findings_count = SumOfCounts(result.finding_types)
         /\ result.findings_count <= Len(ar_findings.findings) - CountWithResult("VALID")

\* a rewrite was produced for the other category while VALID was passed over
C16_Witness ==
  /\ Returned
  /\ ValidMixed
  /\ result.rewritten
  /\ \E i \in DOMAIN attempted : attempted[i] = "VALID"
  /\ result.findings_count > 0

\* ---------------------------------------------------------------------- C17
\* C17: categorize_findings groups by exact match of the outcome string:
\* the group of each category is the list of the input findings with that
\* outcome, in input order (so each such finding is there once); the keys
\* are exactly the categories that have a finding, each once; findings with
\* an outcome outside the enum or without one are in no group.
HasOutcome(finding, k) == "result" \in DOMAIN finding /\ finding.result = k

FindingsWithOutcome(k) ==
  LET Test(f) == HasOutcome(f, k) IN SelectSeq(ar_findings.findings, Test)

RECURSIVE TotalLen(_)
TotalLen(groups) == IF groups = <<>> THEN 0 ELSE Len(Head(groups)) + TotalLen(Tail(groups))

C17_GroupsByExactOutcome ==
  pc \in {"categorized", "classified", "reclassified"} =>
    /\ Len(findings_by_type.groups) = Len(findings_by_type.keys)
    /\ \A i, j \in DOMAIN findings_by_type.keys :
         i # j => findings_by_type.keys[i] # findings_by_type.keys[j]
    /\ {findings_by_type.keys[i].key : i \in DOMAIN findings_by_type.keys}
         = {k \in RecognizedKeys : CountWithResult(k) > 0}
    /\ \A i \in DOMAIN findings_by_type.keys :
         /\ findings_by_type.keys[i] \in FindingType
         /\ findings_by_type.groups[i] # <<>>
         /\ findings_by_type.groups[i] = FindingsWithOutcome(findings_by_type.keys[i].key)
    /\ TotalLen(findings_by_type.groups)
         = Cardinality({i \in DOMAIN ar_findings.findings :
                          \E k \in RecognizedKeys : HasOutcome(ar_findings.findings[i], k)})

\* two different INVALID findings around a finding that is dropped
C17_Witness ==
  /\ pc = "categorized"
  /\ Len(ar_findings.findings) = 3
  /\ Len(findings_by_type.keys) = 1
  /\ Len(findings_by_type.groups[1]) = 2
  /\ findings_by_type.groups[1][1] # findings_by_type.groups[1][2]
  /\ ~(\E k \in RecognizedKeys : HasOutcome(ar_findings.findings[2], k))

\* ---------------------------------------------------------------------- C18
\* C18: get_priority_types returns each key of the dict exactly once, in the
\* fixed order INVALID, SATISFIABLE, NO_DATA, TRANSLATION_AMBIGUOUS,
\* TOO_COMPLEX, VALID; the priorities of the six types are pairwise
\* different; an empty dict gives the empty list.
ClaimedOrder ==
  << "INVALID", "SATISFIABLE", "NO_DATA", "TRANSLATION_AMBIGUOUS", "TOO_COMPLEX", "VALID" >>

ClaimedPosition(k) == CHOOSE i \in DOMAIN ClaimedOrder : ClaimedOrder[i] = k

C18_PriorityIsStrictTotalOrder ==
  /\ \A a, b \in FindingType : a # b => a.priority # b.priority
  /\ pc \in {"classified", "prioritized", "reclassified"} =>
       /\ Len(priority_types) = Len(findings_by_type.keys)
       /\ {priority_types[i] : i \in DOMAIN priority_types}
            = {findings_by_type.keys[i] : i \in DOMAIN findings_by_type.keys}
       /\ \A i, j \in DOMAIN priority_types :
            i < j => /\ priority_types[i].priority > priority_types[j].priority
                     /\ ClaimedPosition(priority_types[i].key)
                          < ClaimedPosition(priority_types[j].key)
       /\ (findings_by_type.keys = <<>> => priority_types = <<>>)

\* all six types handed in lowest priority first
C18_Witness ==
  /\ pc = "prioritized"
  /\ Len(priority_types) = 6
  /\ findings_by_type.keys[1] = VALID
  /\ findings_by_type.keys[6] = INVALID
  /\ priority_types[1] = INVALID

FieldLen(finding, field) == IF field \in DOMAIN finding THEN Len(finding[field]) ELSE 0

RECURSIVE EntriesBefore(_, _, _)
EntriesBefore(findings, n, field) ==
  IF n = 0 THEN 0
  ELSE EntriesBefore(findings, n - 1, field) + FieldLen(findings[n], field)

\* the p-th entry of the field over the whole group, counted across findings
EntryAt(findings, field, p) ==
  LET f == CHOOSE i \in DOMAIN findings :
             /\ EntriesBefore(findings, i - 1, field) < p
             /\ p <= EntriesBefore(findings, i, field)
  IN findings[f][field][p - EntriesBefore(findings, f - 1, field)]

TotalEntries(findings, field) == EntriesBefore(findings, Len(findings), field)

IsBulletList(text, findings, field) ==
  LET n == TotalEntries(findings, field)
  IN /\ Len(text) = 3 * n - 1
     /\ \A p \in 1..n :
          /\ text[3 * p - 2] = "- "
          /\ text[3 * p - 1] = EntryAt(findings, field, p)
          /\ p < n => text[3 * p] = "\n"

IsCommaList(text, findings, field) ==
  LET n == TotalEntries(findings, field)
  IN /\ Len(text) = 2 * n - 1
     /\ \A p \in 1..n :
          /\ text[2 * p - 1] = EntryAt(findings, field, p)
          /\ p < n => text[2 * p] = ", "

C20_EveryEntryRenderedInOrder ==
  (pc = "aggregated" /\ ar_findings.findings # <<>>) =>
    LET findings == ar_findings.findings
    IN /\ {"violations", "suggestions", "applied_rules"} \subseteq DOMAIN finding_data
       /\ TotalEntries(findings, "violations") > 0 =>
            IsBulletList(finding_data.violations, findings, "violations")
       /\ TotalEntries(findings, "suggestions") > 0 =>
            IsBulletList(finding_data.suggestions, findings, "suggestions")
       /\ TotalEntries(findings, "appliedRules") > 0 =>
            IsCommaList(finding_data.applied_rules, findings, "appliedRules")
       /\ TotalEntries(findings, "violations") = 0 =>
            finding_data.violations = <<"No specific violations found">>
       /\ TotalEntries(findings, "suggestions") = 0 =>
            finding_data.suggestions = <<"Ensure compliance with policy requirements">>
       /\ TotalEntries(findings, "appliedRules") = 0 =>
            finding_data.applied_rules = <<"Policy rules">>

\* three findings whose lists repeat a violation across findings and a rule
\* inside one finding and across findings
C20_Witness ==
  /\ pc = "aggregated"
  /\ Len(ar_findings.findings) = 3
  /\ TotalEntries(ar_findings.findings, "violations") = 4
  /\ TotalEntries(ar_findings.findings, "appliedRules") = 4
  /\ Cardinality({p \in 1..4 : EntryAt(ar_findings.findings, "violations", p) = "v1"}) = 2
  /\ Cardinality({p \in 1..4 : EntryAt(ar_findings.findings, "appliedRules", p) = "r1"}) = 3
  /\ Len(finding_data.applied_rules) = 7

\* ---------------------------------------------------------------------- C13
\* C13: in one run of summarize_results the log of outgoing calls begins
\* with the one apply_guardrail call and holds no other; after it come the
\* per-category converse calls, one after the other, at most one for each
\* category that has a finding; a merge call, if any, is single, is the
\* last call, and is made only when the loop has visited every category.
IsValidationCall(c) == c.kind = "apply_guardrail"

C13_OneValidationThenGenerationThenMerge ==
  /\ handler_pc = "entry" => calls = <<>>
  /\ handler_pc # "entry" =>
       /\ Len(calls) >= 1
       /\ IsValidationCall(calls[1])
       /\ \A i \in DOMAIN calls : i > 1 => ~IsValidationCall(calls[i])
  /\ \A i, j \in DOMAIN calls :
       (i # j /\ IsRewriteCall(calls[i]) /\ IsRewriteCall(calls[j]))
         => calls[i].finding_type # calls[j].finding_type
  /\ \A i \in DOMAIN calls :
       IsRewriteCall(calls[i]) => CountWithResult(calls[i].finding_type) > 0
  /\ Len(CombineCalls) <= 1
  /\ \A i \in DOMAIN calls :
       IsCombineCall(calls[i]) =>
         /\ i = Len(calls)
         /\ idx > Len(priority_types)
         /\ Len(attempted) = Len(priority_types)

\* a finished run with the validation call, two category calls and a merge
C13_Witness ==
  /\ handler_pc = "done"
  /\ Len(calls) = 4
  /\ IsValidationCall(calls[1])
  /\ IsRewriteCall(calls[2])
  /\ IsRewriteCall(calls[3])
  /\ IsCombineCall(calls[4])
  /\ "rewritten" \in DOMAIN summary

\* ---------------------------------------------------------------------- C14
\* C14: when the apply_guardrail call raises, it is the only outgoing call
\* of the run (no converse call, no second apply_guardrail call) and the
\* handler returns a dict with error = True, the class name of the
\* exception as error_type and the exception's text as error_message.
ValidatorFailed == calls # <<>> /\ IsValidationCall(calls[1]) /\ calls[1].outcome.raises

ResultKeys ==
  {"query", "original_response", "rewritten_response", "rewritten", "findings",
   "finding_types", "findings_count", "domain", "message", "guardrail_id",
   "guardrail_version"}

ErrorKeys ==
  {"error", "error_type", "error_message", "query", "original_response", "guardrail_id"}

IsErrorDict(d) == DOMAIN d = ErrorKeys /\ d.error = TRUE /\ d.error_type # "" /\ d.error_message # <<>>

IsResultDict(d) == DOMAIN d \in {ResultKeys, ResultKeys \cup {"usage"}}

C15_SummarizeNeverRaises ==
  /\ handler_pc \in {"entry", "construct", "rewriting", "done"}
  /\ pc = "raised" => handler_pc \in {"rewriting", "done"}
  /\ handler_pc = "done" =>
       /\ IsResultDict(summary) \/ IsErrorDict(summary)
       /\ IsResultDict(summary) <=> pc = "returned"
       /\ (pc = "raised" \/ pc = "idle") => IsErrorDict(summary)
       /\ (pc = "returned" /\ \E i \in DOMAIN calls :
                                 calls[i].kind \in {"rewrite", "combine"}
                                 /\ calls[i].outcome.raises)
            => IsResultDict(summary)

\* a composition error after one category was rewritten ends in the error dict
C15_Witness ==
  /\ handler_pc = "done"
  /\ pc = "raised"
  /\ Len(RewriteCalls) = 1
  /\ DOMAIN summary = ErrorKeys
  /\ summary.error_type = "ValueError"

\* ---------------------------------------------------------------------- C21
\* C21 (as claimed): for a non-empty group of findings none of the fields
\* violations, suggestions and applied_rules of process_finding_data is the
\* empty string, and a field whose pooled list has no entry is the fixed
\* fallback text.
\* A text is a sequence of pieces; it is the empty string when every piece is.
IsEmptyString(text) == \A i \in DOMAIN text : text[i] = ""

C21_AggregatedFieldsNeverEmpty ==
  (pc = "aggregated" /\ ar_findings.findings # <<>>) =>
    /\ ~IsEmptyString(finding_data.violations)
    /\ ~IsEmptyString(finding_data.suggestions)
    /\ ~IsEmptyString(finding_data.applied_rules)
    /\ TotalEntries(ar_findings.findings, "violations") = 0 =>
         finding_data.violations = <<"No specific violations found">>
    /\ TotalEntries(ar_findings.findings, "suggestions") = 0 =>
         finding_data.suggestions = <<"Ensure compliance with policy requirements">>

\* ---------------------------------------------------------------------- C22
\* C22: while the loop is at a category that can have a template, whatever
\* the template file holds, a template naming a slot outside domain,
\* question, original_answer, violations, suggestions, applied_rules (and
\* policy, when a policy definition is configured) makes prompt composition
\* raise and yields no prompt; and once composition has raised, no converse
\* call was made for that category and it is not in finding_types.
SuppliedSlots ==
  {"domain", "question", "original_answer", "violations", "suggestions", "applied_rules"}
  \cup (IF policy_definition.present /\ policy_definition.text # <<>>
        THEN {"policy"} ELSE {})

NamesUnsuppliedSlot(file) ==
  /\ file.exists
  /\ file.readable
  /\ \E i \in DOMAIN file.content :
       file.content[i].kind = "slot" /\ file.content[i].val \notin SuppliedSlots

C22_MissingSlotIsCompositionError ==
  /\ (InLoop /\ priority_types[idx].key \notin {"VALID", "TOO_COMPLEX"}) =>
       \A file \in TemplateFiles :
         NamesUnsuppliedSlot(file) =>
           /\ PromptFor(file).raised
           /\ ~PromptFor(file).prompt.present
  /\ pc = "raised" =>
       /\ attempted # <<>>
       /\ \A i \in DOMAIN calls : calls[i].finding_type # attempted[Len(attempted)]
       /\ \A i \in DOMAIN result.finding_types :
            result.finding_types[i] # attempted[Len(attempted)]

\* no policy is configured, a first category was rewritten, and the
\* template of the next one raised
C22_Witness ==
  /\ pc = "raised"
  /\ ~policy_definition.present
  /\ Len(attempted) = 2
  /\ Len(rewrites) = 1

\* ---------------------------------------------------------------------- C23
\* C23: the prompt sent by _combine_rewrites holds the question and the
\* original answer, and its category labels, read front to back, are the
\* categories of the successful converse calls in the order the calls were
\* made (descending priority), each once; every label stands in a line
\* "Correction <n> (<category>): <text>" with the text that call returned.
\* A category that was skipped or whose call failed has no label.
Occurs(piece, text) ==
  \E n \in 1..(Len(text) - Len(piece) + 1) : SubSeq(text, n, n + Len(piece) - 1) = piece

LabelPositions(text) == {p \in DOMAIN text : text[p] \in RecognizedKeys}

\* the position of the n-th label
LabelAt(text, n) ==
  CHOOSE p \in LabelPositions(text) :
    Cardinality({q \in LabelPositions(text) : q <= p}) = n

C23_MergePromptListsEveryOutcomeInOrder ==
  combine_sent.present =>
    LET prompt == combine_sent.text
        made == SuccessfulCalls
    IN /\ Occurs(user_query, prompt)
       /\ Occurs(llm_response, prompt)
       /\ Cardinality(LabelPositions(prompt)) = Len(made)
       /\ Len(made) >= 2
       /\ \A n \in DOMAIN made :
            LET p == LabelAt(prompt, n)
                text == made[n].outcome.text
            IN /\ prompt[p] = made[n].finding_type
               /\ p > 3
               /\ prompt[p - 3] = "Correction "
               /\ prompt[p - 2] = Digits[n]
               /\ prompt[p - 1] = " ("
               /\ prompt[p + 1] = "): "
               /\ SubSeq(prompt, p + 2, p + 1 + Len(text)) = text
               /\ prompt[p + 2 + Len(text)] = "\n\n"
       /\ \A m, n \in DOMAIN made :
            m < n => PriorityOfKey(made[m].finding_type) > PriorityOfKey(made[n].finding_type)

\* three categories were attempted, one gave no rewrite, the other two
\* were sent to the merge call
C23_Witness ==
  /\ Returned
  /\ combine_sent.present
  /\ Len(attempted) = 3
  /\ Len(SuccessfulCalls) = 2
  /\ Cardinality(LabelPositions(combine_sent.text)) = 2

\* ---------------------------------------------------------------------- C24
\* C24: a listing returned without error holds exactly the listed
\* guardrails whose detail was fetched and carries at least one attached
\* policy, in the order of the listing, each with arc_policy_count equal to
\* its number of attached policies (so at least 1); 'count' is the length
\* of the returned list.
AttachedPolicies(item) ==
  IF item.detail.raises \/ ~item.detail.hasConfig \/ ~item.detail.hasPolicies
  THEN 0 ELSE Len(item.detail.policies)

HasAttachedPolicy(item) == AttachedPolicies(item) >= 1

C24_OnlyGuardrailsWithPoliciesListed ==
  (pc = "listed" /\ "error" \notin DOMAIN listing) =>
    LET expected == SelectSeq(list_guardrails_response.guardrails, HasAttachedPolicy)
    IN /\ DOMAIN listing = {"guardrails", "count"}
       /\ listing.count = Len(listing.guardrails)
       /\ Len(listing.guardrails) = Len(expected)
       /\ \A i \in DOMAIN expected :
            /\ listing.guardrails[i].id = expected[i].id
            /\ listing.guardrails[i].arc_policy_count = AttachedPolicies(expected[i])
            /\ listing.guardrails[i].arc_policy_count >= 1
            /\ listing.guardrails[i].has_arc_policies

\* three listed guardrails: two attached policies, an empty policy list,
\* one attached policy
C24_Witness ==
  /\ pc = "listed"
  /\ Len(list_guardrails_response.guardrails) = 3
  /\ AttachedPolicies(list_guardrails_response.guardrails[1]) = 2
  /\ list_guardrails_response.guardrails[2].detail.hasPolicies
  /\ AttachedPolicies(list_guardrails_response.guardrails[2]) = 0
  /\ listing.count = 2
  /\ listing.guardrails[2].arc_policy_count = 1

\* ---------------------------------------------------------------------- C25
\* C25: the handler makes one list_guardrails call first; when that call
\* raises ClientError the handler returns error = True with an empty
\* guardrails list and makes no get_guardrail call; otherwise it makes one
\* get_guardrail call per listed guardrail, in order, also after a
\* get_guardrail call that raised ClientError, and the guardrail whose call
\* raised is the only one left out on that account.
DetailCallIds ==
  LET IsDetail(c) == c.op = "get_guardrail"
      ds == SelectSeq(bedrock_calls, IsDetail)
  IN [i \in DOMAIN ds |-> ds[i].id]

C25_DetailErrorSkipsOneEntry ==
  /\ pc # "list" => (bedrock_calls # <<>> /\ bedrock_calls[1].op = "list_guardrails")
  /\ \A i \in DOMAIN bedrock_calls : i > 1 => bedrock_calls[i].op = "get_guardrail"
  /\ (pc = "listed" /\ list_guardrails_response.raises) =>
       /\ Len(bedrock_calls) = 1
       /\ DOMAIN listing = {"error", "error_message", "guardrails"}
       /\ listing.error = TRUE
       /\ listing.guardrails = <<>>
  /\ (pc = "listed" /\ ~list_guardrails_response.raises) =>
       /\ "error" \notin DOMAIN listing
       /\ DetailCallIds = [i \in DOMAIN list_guardrails_response.guardrails |->
                             list_guardrails_response.guardrails[i].id]
       /\ \A i \in DOMAIN list_guardrails_response.guardrails :
            HasAttachedPolicy(list_guardrails_response.guardrails[i]) =>
              \E j \in DOMAIN listing.guardrails :
                listing.guardrails[j].id = list_guardrails_response.guardrails[i].id

\* the detail call of the first listed guardrail raised and a later
\* guardrail is returned
C25_Witness ==
  /\ pc = "listed"
  /\ Len(list_guardrails_response.guardrails) >= 2
  /\ list_guardrails_response.guardrails[1].detail.raises
  /\ "count" \in DOMAIN listing
  /\ listing.count >= 1

\* ---------------------------------------------------------------------- C26
\* C26: when the findings with a recognised outcome are TOO_COMPLEX and
\* VALID findings, at least one of each, the call goes through the loop
\* over both categories, makes no converse call, and returns not rewritten
\* with no text, empty finding_types, findings_count 0 and the message
\* "No rewrites generated".
TooComplexAndValidOnly ==
  /\ ~ar_findings.isNone /\ ar_findings.hasFindings
  /\ CountWithResult("TOO_COMPLEX") > 0
  /\ CountWithResult("VALID") > 0
  /\ \A k \in RecognizedKeys \ {"TOO_COMPLEX", "VALID"} : CountWithResult(k) = 0

C26_TooComplexWithValidIsNotShortCircuited ==
  TooComplexAndValidOnly =>
    /\ pc # "raised"
    /\ calls = <<>>
    /\ Returned =>
         /\ attempted = <<"TOO_COMPLEX", "VALID">>
         /\ ~result.rewritten
         /\ result.rewritten_response = None
         /\ result.finding_types = <<>>
         /\ result.findings_count = 0
         /\ result.message = Some(<<"No rewrites generated">>)

\* VALID listed before TOO_COMPLEX, with an unclassifiable finding between
C26_Witness ==
  /\ Returned
  /\ TooComplexAndValidOnly
  /\ Len(ar_findings.findings) = 3
  /\ HasOutcome(ar_findings.findings[1], "VALID")
  /\ ~(\E k \in RecognizedKeys : HasOutcome(ar_findings.findings[2], k))
  /\ attempted = <<"TOO_COMPLEX", "VALID">>

\* ---------------------------------------------------------------------- C27
\* C27: in every result rewrite_response returns, finding_types has no
\* category twice and is in strictly descending priority, and
\* findings_count is the number of input findings whose outcome is one of
\* the categories in finding_types.
C27_FindingTypesAndCountConsistent ==
  Returned =>
    /\ \A i, j \in DOMAIN result.finding_types :
         i # j => result.finding_types[i] # result.finding_types[j]
    /\ \A i \in DOMAIN result.finding_types : result.finding_types[i] \in RecognizedKeys
    /\ \A i, j \in DOMAIN result.finding_types :
         i < j => ClaimedPosition(result.finding_types[i])
                    < ClaimedPosition(result.finding_types[j])
    /\ result.findings_count =
         Cardinality({n \in DOMAIN ar_findings.findings :
                        \E i \in DOMAIN result.finding_types :
                          HasOutcome(ar_findings.findings[n], result.finding_types[i])})

\* two categories rewritten, one of them with two findings
C27_Witness ==
  /\ Returned
  /\ Len(result.finding_types) = 2
  /\ result.findings_count = 3
  /\ result.rewritten

\* ---------------------------------------------------------------------- C28
\* C28: when the merge call was made and gave no usable text, the returned
\* result is not rewritten and has no rewritten_response, yet finding_types
\* still lists the categories whose converse call succeeded (two or more)
\* and findings_count still counts their findings (more than zero).
MergeFailed ==
  /\ Returned
  /\ \E i \in DOMAIN calls :
       /\ calls[i].kind = "combine"
       /\ (calls[i].outcome.raises \/ ~calls[i].outcome.hasText
             \/ calls[i].outcome.text = <<>>)

C28_MergeFailureKeepsTypesAndCount ==
  MergeFailed =>
    /\ ~result.rewritten
    /\ ~result.rewritten_response.present
    /\ Len(result.finding_types) >= 2
    /\ result.finding_types =
         [i \in DOMAIN SuccessfulCalls |-> SuccessfulCalls[i].finding_type]
    /\ result.findings_count > 0
    /\ result.findings_count >= Len(result.finding_types)
    /\ result.findings_count = SumOfCounts(result.finding_types)

\* three categories rewritten, then the merge call raised
C28_Witness ==
  /\ MergeFailed
  /\ Len(result.finding_types) = 3
  /\ calls[Len(calls)].outcome.raises

\* ---------------------------------------------------------------------- C29
\* C29: a converse call that returned a response without the text field
\* leaves no rewrite for its category, the category is not in
\* finding_types and its findings are not counted, and the loop goes on:
\* the categories after it are attempted as well.
IsTextlessCall(c) == c.kind = "rewrite" /\ ~c.outcome.raises /\ ~c.outcome.hasText

C29_ResponseWithoutTextIsAFailedCall ==
  \A i \in DOMAIN calls :
    IsTextlessCall(calls[i]) =>
      /\ \A r \in DOMAIN rewrites : rewrites[r].finding_type # calls[i].finding_type
      /\ \A t \in DOMAIN result.finding_types :
           result.finding_types[t] # calls[i].finding_type
      /\ result.findings_count <=
           Len(ar_findings.findings) - CountWithResult(calls[i].finding_type)
      /\ Returned => Len(attempted) = Len(priority_types)
      /\ pc = "loop" => Len(attempted) = idx - 1

\* the first category's response had no text field, the next category was
\* rewritten
C29_Witness ==
  /\ Returned
  /\ Len(calls) >= 2
  /\ IsTextlessCall(calls[1])
  /\ IsSuccessfulCall(calls[2])
  /\ result.rewritten
  /\ Len(result.finding_types) = 1

\* ---------------------------------------------------------------------- C30
\* C30: once apply_guardrail has returned, the findings summarize_results
\* rewrites from are those of the first assessment with the
\* automatedReasoningPolicy key (none when no assessment has it), while
\* the 'findings' of the returned result list one formatted finding for
\* every finding of every such assessment, in order; so findings_count is
\* at most the length of 'findings' and every category in finding_types is
\* the result of a listed finding.
PolicyAssessments ==
  LET HasPolicyKey(a) == a.hasPolicy
  IN SelectSeq(apply_guardrail_response.assessments, HasPolicyKey)

RECURSIVE FindingsOfAll(_)
FindingsOfAll(assessments) ==
  IF assessments = <<>> THEN <<>>
  ELSE FindingsOfAll(SubSeq(assessments, 1, Len(assessments) - 1))
       \o assessments[Len(assessments)].policy.findings

C30_RewriteFromFirstPolicyListAll ==
  /\ handler_pc \in {"construct", "rewriting"} \/ (handler_pc = "done" /\ pc # "idle") =>
       /\ PolicyAssessments = <<>> => ar_findings.isNone
       /\ PolicyAssessments # <<>> => ar_findings = PolicyAssessments[1].policy
       /\ Len(formatted_findings) = Len(FindingsOfAll(PolicyAssessments))
       /\ \A i \in DOMAIN formatted_findings :
            LET finding == FindingsOfAll(PolicyAssessments)[i]
            IN formatted_findings[i].result =
                 (IF "result" \in DOMAIN finding THEN finding.result ELSE "UNKNOWN")
  /\ (handler_pc = "done" /\ "findings" \in DOMAIN summary) =>
       /\ summary.findings = formatted_findings
       /\ summary.findings_count <= Len(summary.findings)
       /\ \A t \in DOMAIN summary.finding_types :
            \E i \in DOMAIN summary.findings :
              summary.findings[i].result = summary.finding_types[t]

\* two policy assessments: the response is rewritten from the first one
\* only, the result lists the findings of both
C30_Witness ==
  /\ handler_pc = "done"
  /\ "findings" \in DOMAIN summary
  /\ Len(PolicyAssessments) = 2
  /\ PolicyAssessments[1].policy.findings # <<>>
  /\ PolicyAssessments[2].policy.findings # <<>>
  /\ PolicyAssessments[1] # PolicyAssessments[2]
  /\ summary.rewritten
  /\ summary.findings_count < Len(summary.findings)

====
